---- MODULE Spec2Model ----
\* The apns package's client, dispatcher and workers as a state machine:
\* Client.ExecuteCommand, the dispatch loop of Client.init, the worker's
\* executionLoopRoutine / executeCommand / reconnect and its error-drain
\* goroutine, and a consumer of each command's private error channel.
EXTENDS Integers, Sequences, FiniteSets, TLC

\* ---------------------------------------------------------------- bounds
MaxCmds == 2        \* commands submitted over a run
NumWorkers == 2     \* ClientConfig.NumberOfWorkers of the run
MaxQueueSize == 1   \* largest ClientConfig.CommandsQueueSize tried

Cmds == 1..MaxCmds
Workers == 1..NumWorkers
NoCmd == 0
None == [none |-> TRUE]  \* nothing handed in, nothing returned yet

\* error kinds carried by a CommandError
ErrKinds == {"validation", "write_closed", "write_error", "apns_response",
             "read_closed", "read_error", "connect"}

\* outcomes of tls.Conn.Write and tls.Conn.Read seen by executeCommand
WriteOutcomes == {"ok", "EOF", "error"}
ResponseLength == 6     \* len(responseBytes)
ReadOutcomes == { <<0, "timeout">>, <<0, "EOF">>, <<0, "error">>,
                  <<ResponseLength, "nil">>, <<ResponseLength, "EOF">>,
                  <<ResponseLength, "error">> }

VARIABLES
    \* Client
    queueSize,          \* cap(c.commandsQueue) = cap(c.commandErrorsQueue)
    commandsQueue,      \* c.commandsQueue: buffered channel of commands
    workerQueue,        \* c.workerQueue: buffered channel of worker inboxes
    commandErrorsQueue, \* c.commandErrorsQueue: the process-wide error stream
    pending,            \* dispatch goroutines waiting on <-c.workerQueue
    holder,             \* dispatch goroutines holding an inbox, before the send
    \* commands
    nsub,               \* commands handed to ExecuteCommand so far
    valid,              \* whether cmd.Bytes() succeeds
    ret,                \* what ExecuteCommand returned
    closes,             \* how often close(cmd.Errors()) was called
    sendOnClosed,       \* a send was attempted on the closed channel
    consumer,           \* the receiver of cmd.Errors()
    recvd,              \* errors the receiver obtained
    offered,            \* errors the worker tried to send on cmd.Errors()
    writes, reads,      \* socket writes / reads done for the command
    reconnFor,          \* a reconnect was scheduled while executing it
    \* workers
    pc,                 \* position of executionLoopRoutine
    cur,                \* the command being executed
    err,                \* executeCommand's err
    rdN,                \* executeCommand's read
    conn,               \* w.tlsConn
    readySignal, pauseSignal,   \* buffered (1) signal channels
    rpc,                \* position of the reconnect goroutine
    \* users of the package's other entry points
    clientErrors,       \* what a receiver of Client.Errors() has obtained
    notification,       \* the Notification handed to PushNotificationCommand.Bytes
    cmdBytes,           \* what PushNotificationCommand.Bytes returned
    responseBytes,      \* executeCommand's response buffer and read count
    commandError,       \* what NewCommandErrorFromAPNSResponse returned
    feedback,           \* the locals of a running CheckFeedbackService
    wire                \* one worker's connection: what was written, what was reported

clientVars == <<queueSize, commandsQueue, workerQueue, pending, holder>>
chanVars == <<closes, sendOnClosed, consumer, recvd, offered>>
cmdVars == <<nsub, valid, ret, writes, reads, reconnFor>>
loopVars == <<pc, cur, err, rdN>>
sigVars == <<readySignal, pauseSignal, rpc>>
codecVars == <<notification, cmdBytes, responseBytes, commandError, feedback, wire>>
envVars == <<clientErrors, codecVars>>
vars == <<clientVars, commandErrorsQueue, chanVars, cmdVars, loopVars, sigVars, conn, envVars>>

\* ---------------------------------------------------------------- Init
\* The state when NewClient returns: every worker has tried its first
\* connect; one whose connect failed has no goroutines at all.
ClientInit ==
    /\ queueSize \in 1..MaxQueueSize
    /\ commandsQueue = <<>>
    /\ workerQueue = <<>>
    /\ commandErrorsQueue = <<>>
    /\ pending = {}
    /\ holder = [c \in Cmds |-> 0]
    /\ nsub = 0
    /\ valid = [c \in Cmds |-> TRUE]
    /\ ret = [c \in Cmds |-> "none"]
    /\ closes = [c \in Cmds |-> 0]
    /\ sendOnClosed = [c \in Cmds |-> FALSE]
    /\ consumer = [c \in Cmds |-> "idle"]
    /\ recvd = [c \in Cmds |-> <<>>]
    /\ offered = [c \in Cmds |-> <<>>]
    /\ writes = [c \in Cmds |-> 0]
    /\ reads = [c \in Cmds |-> 0]
    /\ reconnFor = [c \in Cmds |-> FALSE]
    /\ \E ok \in [Workers -> BOOLEAN] :
          /\ pc = [w \in Workers |-> IF ok[w] THEN "select" ELSE "noinit"]
          /\ conn = [w \in Workers |-> IF ok[w] THEN "open" ELSE "none"]
          /\ readySignal = [w \in Workers |-> IF ok[w] THEN 1 ELSE 0]
    /\ cur = [w \in Workers |-> NoCmd]
    /\ err = [w \in Workers |-> "nil"]
    /\ rdN = [w \in Workers |-> 0]
    /\ pauseSignal = [w \in Workers |-> 0]
    /\ rpc = [w \in Workers |-> "none"]
    /\ clientErrors = <<>>

\* nothing is being encoded or decoded outside the workers
CodecIdle ==
    /\ notification = None
    /\ cmdBytes = None
    /\ responseBytes = None
    /\ commandError = None
    /\ feedback = None /\ wire = None

Init == ClientInit /\ CodecIdle

\* ------------------------------------------------- the command's channel
\* close(cmd.Errors()): a blocked receiver wakes with the zero value, and
\* from then on every receive returns the zero value at once
closeErrors(c) ==
    /\ closes' = [closes EXCEPT ![c] = @ + 1]
    /\ consumer' = [consumer EXCEPT ![c] = "idle"]
    /\ UNCHANGED <<sendOnClosed, recvd, offered>>

\* select { case cmd.Errors() <- e: default: } on the unbuffered channel:
\* the send happens only if a receiver is blocked on the channel right now
trySendErrors(c, e) ==
    /\ offered' = [offered EXCEPT ![c] = Append(@, e)]
    /\ UNCHANGED closes
    /\ IF closes[c] > 0
       THEN /\ sendOnClosed' = [sendOnClosed EXCEPT ![c] = TRUE]
            /\ UNCHANGED <<consumer, recvd>>
       ELSE /\ UNCHANGED sendOnClosed
            /\ IF consumer[c] = "waiting"
               THEN /\ recvd' = [recvd EXCEPT ![c] = Append(@, e)]
                    /\ consumer' = [consumer EXCEPT ![c] = "idle"]
               ELSE UNCHANGED <<consumer, recvd>>

\* the command's owner: commandError := <-cmd.Errors(), blocking while the
\* channel is open, and repeated until the channel is closed
Receive(c) ==
    /\ c <= nsub
    /\ consumer[c] = "idle"
    /\ closes[c] = 0
    /\ consumer' = [consumer EXCEPT ![c] = "waiting"]
    /\ UNCHANGED <<closes, sendOnClosed, recvd, offered>>
    /\ UNCHANGED <<clientVars, cmdVars, loopVars, sigVars, conn, commandErrorsQueue, envVars>>

\* ---------------------------------------------------------------- Client
\* faulty variant of ExecuteCommand: the capacity test is off by one
ExecuteCommandOffByOne(c, v) ==
    /\ c = nsub + 1
    /\ nsub' = c
    /\ valid' = [valid EXCEPT ![c] = v]
    /\ IF Len(commandsQueue) <= queueSize
       THEN /\ commandsQueue' = Append(commandsQueue, c)
            /\ ret' = [ret EXCEPT ![c] = "nil"]
            /\ UNCHANGED chanVars
       ELSE /\ closeErrors(c)
            /\ ret' = [ret EXCEPT ![c] = "queue_full"]
            /\ UNCHANGED commandsQueue
    /\ UNCHANGED <<queueSize, workerQueue, pending, holder>>
    /\ UNCHANGED <<writes, reads, reconnFor, loopVars, sigVars, conn, commandErrorsQueue, envVars>>

\* Client.ExecuteCommand: a non-blocking send on c.commandsQueue
ExecuteCommand(c, v) ==
    /\ c = nsub + 1
    /\ nsub' = c
    /\ valid' = [valid EXCEPT ![c] = v]
    /\ IF Len(commandsQueue) < queueSize
       THEN /\ commandsQueue' = Append(commandsQueue, c)
            /\ ret' = [ret EXCEPT ![c] = "nil"]
            /\ UNCHANGED chanVars
       ELSE /\ closeErrors(c)
            /\ ret' = [ret EXCEPT ![c] = "queue_full"]
            /\ UNCHANGED commandsQueue
    /\ UNCHANGED <<queueSize, workerQueue, pending, holder>>
    /\ UNCHANGED <<writes, reads, reconnFor, loopVars, sigVars, conn, commandErrorsQueue, envVars>>

\* main dispatch loop: cmd := <-c.commandsQueue; go func() { ... }()
dispatchLoop ==
    /\ commandsQueue # <<>>
    /\ pending' = pending \cup {Head(commandsQueue)}
    /\ commandsQueue' = Tail(commandsQueue)
    /\ UNCHANGED <<queueSize, workerQueue, holder>>
    /\ UNCHANGED <<chanVars, cmdVars, loopVars, sigVars, conn, commandErrorsQueue, envVars>>

\* faulty variant of dispatchTakeWorker: the inbox is read but left in the registry
dispatchTakeWorkerPeek(c) ==
    /\ c \in pending
    /\ workerQueue # <<>>
    /\ holder' = [holder EXCEPT ![c] = Head(workerQueue)]
    /\ pending' = pending \ {c}
    /\ UNCHANGED <<queueSize, commandsQueue, workerQueue>>
    /\ UNCHANGED <<chanVars, cmdVars, loopVars, sigVars, conn, commandErrorsQueue, envVars>>

\* dispatch goroutine: workerWorkQueue := <-c.workerQueue
dispatchTakeWorker(c) ==
    /\ c \in pending
    /\ workerQueue # <<>>
    /\ holder' = [holder EXCEPT ![c] = Head(workerQueue)]
    /\ workerQueue' = Tail(workerQueue)
    /\ pending' = pending \ {c}
    /\ UNCHANGED <<queueSize, commandsQueue>>
    /\ UNCHANGED <<chanVars, cmdVars, loopVars, sigVars, conn, commandErrorsQueue, envVars>>

\* faulty variant of dispatchForward: the goroutine keeps the inbox after its send
dispatchForwardKeep(c) ==
    /\ holder[c] # 0
    /\ pc[holder[c]] = "await"
    /\ pc' = [pc EXCEPT ![holder[c]] = "bytes"]
    /\ cur' = [cur EXCEPT ![holder[c]] = c]
    /\ UNCHANGED <<queueSize, commandsQueue, workerQueue, pending, holder>>
    /\ UNCHANGED <<chanVars, cmdVars, err, rdN, sigVars, conn, commandErrorsQueue, envVars>>

\* dispatch goroutine: workerWorkQueue <- cmd, received by the worker's
\* case command := <-w.workQueue (an unbuffered channel: one joint step)
dispatchForward(c) ==
    /\ holder[c] # 0
    /\ pc[holder[c]] = "await"
    /\ pc' = [pc EXCEPT ![holder[c]] = "bytes"]
    /\ cur' = [cur EXCEPT ![holder[c]] = c]
    /\ holder' = [holder EXCEPT ![c] = 0]
    /\ UNCHANGED <<queueSize, commandsQueue, workerQueue, pending>>
    /\ UNCHANGED <<chanVars, cmdVars, err, rdN, sigVars, conn, commandErrorsQueue, envVars>>

\* the client's errors routine (and any reader of Client.Errors()):
\* commandError := <-c.commandErrorsQueue
errorsRoutine ==
    /\ commandErrorsQueue # <<>>
    /\ commandErrorsQueue' = Tail(commandErrorsQueue)
    /\ UNCHANGED <<clientVars, chanVars, cmdVars, loopVars, sigVars, conn, envVars>>

\* a user of the package: commandError := <-client.Errors(), the same
\* channel the client's errors routine receives from
clientErrorsReceive ==
    /\ commandErrorsQueue # <<>>
    /\ clientErrors' = Append(clientErrors, Head(commandErrorsQueue))
    /\ commandErrorsQueue' = Tail(commandErrorsQueue)
    /\ UNCHANGED <<clientVars, chanVars, cmdVars, loopVars, sigVars, conn, codecVars>>

\* ---------------------------------------------------------------- worker
\* faulty variant of errorSignal: the drain goroutine waits for room in the
\* stream instead of dropping the error
errorSignalBlocking(e) ==
    /\ Len(commandErrorsQueue) < queueSize
    /\ commandErrorsQueue' = Append(commandErrorsQueue, e)

\* w.errorSignal <- e. The channel is unbuffered and its only receiver is
\* the error-drain goroutine of worker.init, which then runs
\*   select { case c.commandErrorsQueue <- err: default: (logged, dropped) }
\* and loops. That select never blocks and touches nothing but the stream,
\* so the hand-over and the forward are taken as one step.
errorSignal(e) ==
    commandErrorsQueue' =
        IF Len(commandErrorsQueue) < queueSize
        THEN Append(commandErrorsQueue, e)
        ELSE commandErrorsQueue

\* faulty variant of reconnect: the pause signal is one channel shared by all workers
reconnectSharedPause(w) ==
    /\ pauseSignal[w] = 0
    /\ pauseSignal' = [v \in Workers |-> 1]
    /\ rpc' = [rpc EXCEPT ![w] = "running"]
    /\ reconnFor' = [reconnFor EXCEPT ![cur[w]] = TRUE]
    /\ UNCHANGED readySignal

\* worker.reconnect, the part run by the caller: w.pauseSignal <- true,
\* then go func() { disconnect; connect; ... }()
reconnect(w) ==
    /\ pauseSignal[w] = 0
    /\ pauseSignal' = [pauseSignal EXCEPT ![w] = 1]
    /\ rpc' = [rpc EXCEPT ![w] = "running"]
    /\ reconnFor' = [reconnFor EXCEPT ![cur[w]] = TRUE]
    /\ UNCHANGED readySignal

noReconnect == UNCHANGED <<sigVars, reconnFor>>

\* faulty variant of afterExecute: a write that found the connection closed is tried again
afterExecuteRetry(e) ==
    IF e = "write_closed" THEN "write"
    ELSE IF e # "nil" THEN "errorSignal" ELSE "pauseOrReady"

\* where executionLoopRoutine goes when executeCommand has returned e
afterExecute(e) == IF e # "nil" THEN "errorSignal" ELSE "pauseOrReady"

\* executionLoopRoutine: case <-w.readySignal
loopReady(w) ==
    /\ pc[w] = "select"
    /\ readySignal[w] = 1
    /\ readySignal' = [readySignal EXCEPT ![w] = 0]
    /\ pc' = [pc EXCEPT ![w] = "register"]
    /\ UNCHANGED <<clientVars, chanVars, cmdVars, cur, err, rdN, pauseSignal, rpc, conn, commandErrorsQueue, envVars>>

\* executionLoopRoutine: case <-w.pauseSignal (outer select). Every pause
\* signal is taken by the inner select of the execution that sent it
\* (PauseTakenInside below), so this case never runs and Next leaves it out.
loopPause(w) ==
    /\ pc[w] = "select"
    /\ pauseSignal[w] = 1
    /\ pauseSignal' = [pauseSignal EXCEPT ![w] = 0]
    /\ UNCHANGED <<clientVars, chanVars, cmdVars, loopVars, readySignal, rpc, conn, commandErrorsQueue, envVars>>

\* faulty variant of loopQuit: the quit signal is taken like the pause signal
\* and the loop goes on
loopQuitContinue(w) ==
    /\ pc[w] = "select"
    /\ rpc[w] = "quit"
    /\ rpc' = [rpc EXCEPT ![w] = "none"]
    /\ UNCHANGED <<clientVars, chanVars, cmdVars, loopVars, readySignal, pauseSignal, conn, commandErrorsQueue, envVars>>

\* faulty variant of loopQuit: the quit signal is also taken while the
\* command is being finished
loopQuitAnywhere(w) ==
    /\ pc[w] \in {"select", "errorSignal", "errorSend", "pauseOrReady", "close"}
    /\ rpc[w] = "quit"
    /\ rpc' = [rpc EXCEPT ![w] = "none"]
    /\ pc' = [pc EXCEPT ![w] = "exited"]
    /\ conn' = [conn EXCEPT ![w] = "closed"]
    /\ UNCHANGED <<clientVars, chanVars, cmdVars, cur, err, rdN, readySignal, pauseSignal, commandErrorsQueue, envVars>>

\* executionLoopRoutine: case <-w.quitSignal, met by the reconnect
\* goroutine's w.quitSignal <- true; return runs the deferred w.disconnect()
loopQuit(w) ==
    /\ pc[w] = "select"
    /\ rpc[w] = "quit"
    /\ rpc' = [rpc EXCEPT ![w] = "none"]
    /\ pc' = [pc EXCEPT ![w] = "exited"]
    /\ conn' = [conn EXCEPT ![w] = "closed"]
    /\ UNCHANGED <<clientVars, chanVars, cmdVars, cur, err, rdN, readySignal, pauseSignal, commandErrorsQueue, envVars>>

\* faulty variant of loopRegister: the worker registers its inbox and goes
\* back to the outer select instead of receiving on the inbox
loopRegisterAndGo(w) ==
    /\ pc[w] = "register"
    /\ Len(workerQueue) < NumWorkers
    /\ workerQueue' = Append(workerQueue, w)
    /\ pc' = [pc EXCEPT ![w] = "select"]
    /\ UNCHANGED <<queueSize, commandsQueue, pending, holder>>
    /\ UNCHANGED <<chanVars, cmdVars, cur, err, rdN, sigVars, conn, commandErrorsQueue, envVars>>

\* executionLoopRoutine: c.workerQueue <- w.workQueue
loopRegister(w) ==
    /\ pc[w] = "register"
    /\ Len(workerQueue) < NumWorkers
    /\ workerQueue' = Append(workerQueue, w)
    /\ pc' = [pc EXCEPT ![w] = "await"]
    /\ UNCHANGED <<queueSize, commandsQueue, pending, holder>>
    /\ UNCHANGED <<chanVars, cmdVars, cur, err, rdN, sigVars, conn, commandErrorsQueue, envVars>>

\* executeCommand: cmdBytes, err = cmd.Bytes()
executeBytes(w) ==
    /\ pc[w] = "bytes"
    /\ IF valid[cur[w]]
       THEN /\ pc' = [pc EXCEPT ![w] = "write"]
            /\ UNCHANGED err
       ELSE /\ err' = [err EXCEPT ![w] = "validation"]
            /\ pc' = [pc EXCEPT ![w] = afterExecute("validation")]
    /\ UNCHANGED <<clientVars, chanVars, cmdVars, cur, rdN, sigVars, conn, commandErrorsQueue, envVars>>

\* executeCommand: wrote, err = w.tlsConn.Write(cmdBytes) and the handling
\* of its error; a connection that has failed cannot write again
executeWrite(w) ==
    /\ pc[w] = "write"
    /\ \E o \in WriteOutcomes :
         /\ conn[w] = "open" \/ o # "ok"
         /\ writes' = [writes EXCEPT ![cur[w]] = @ + 1]
         /\ CASE o = "ok" ->
                   /\ pc' = [pc EXCEPT ![w] = "read"]
                   /\ UNCHANGED <<err, conn>>
                   /\ noReconnect
              [] o = "EOF" ->
                   /\ err' = [err EXCEPT ![w] = "write_closed"]
                   /\ conn' = [conn EXCEPT ![w] = "broken"]
                   /\ reconnect(w)
                   /\ pc' = [pc EXCEPT ![w] = afterExecute("write_closed")]
              [] o = "error" ->
                   /\ err' = [err EXCEPT ![w] = "write_error"]
                   /\ conn' = [conn EXCEPT ![w] = "broken"]
                   /\ noReconnect
                   /\ pc' = [pc EXCEPT ![w] = afterExecute("write_error")]
    /\ UNCHANGED <<clientVars, chanVars, nsub, valid, ret, reads, cur, rdN, commandErrorsQueue, envVars>>

\* faulty variant of readError: a deadline timeout is reported like any read error
readErrorKeepTimeout(e) ==
    CASE e = "timeout" -> "read_error"
      [] e = "nil" -> "nil"
      [] e = "EOF" -> "read_closed"
      [] e = "error" -> "read_error"

\* executeCommand's err once the read's error has been looked at
\* (a timeout becomes nil) and, at the end, io.EOF has been replaced
readError(e) ==
    CASE e = "timeout" -> "nil"
      [] e = "nil" -> "nil"
      [] e = "EOF" -> "read_closed"
      [] e = "error" -> "read_error"

\* executeCommand: read, err = w.tlsConn.Read(responseBytes); with
\* read = 0 the function runs on to its return
executeRead(w) ==
    /\ pc[w] = "read"
    /\ \E o \in ReadOutcomes :
         /\ reads' = [reads EXCEPT ![cur[w]] = @ + 1]
         /\ rdN' = [rdN EXCEPT ![w] = o[1]]
         /\ conn' = [conn EXCEPT ![w] = IF o[2] \in {"EOF", "error"} THEN "broken" ELSE @]
         /\ IF o[1] > 0
            THEN /\ err' = [err EXCEPT ![w] = o[2]]
                 /\ pc' = [pc EXCEPT ![w] = "responseSignal"]
                 /\ noReconnect
            ELSE /\ err' = [err EXCEPT ![w] = readError(o[2])]
                 /\ pc' = [pc EXCEPT ![w] = afterExecute(readError(o[2]))]
                 /\ IF o[2] = "EOF" THEN reconnect(w) ELSE noReconnect
    /\ UNCHANGED <<clientVars, chanVars, nsub, valid, ret, writes, cur, commandErrorsQueue, envVars>>

\* executeCommand, read > 0: w.errorSignal <- commandError, taken by the
\* error-drain goroutine (unbuffered: one joint step)
executeResponseSignal(w) ==
    /\ pc[w] = "responseSignal"
    /\ errorSignal(<<"apns_response", cur[w]>>)
    /\ pc' = [pc EXCEPT ![w] = "responseSend"]
    /\ UNCHANGED <<clientVars, chanVars, cmdVars, cur, err, rdN, sigVars, conn, envVars>>

\* faulty variant of executeResponseSend: the channel is closed as soon as the
\* APNS error has been offered to it (and again by the run loop)
executeResponseSendClosing(w) ==
    /\ pc[w] = "responseSend"
    /\ offered' = [offered EXCEPT ![cur[w]] = Append(@, "apns_response")]
    /\ recvd' = [recvd EXCEPT ![cur[w]] =
                    IF consumer[cur[w]] = "waiting" THEN Append(@, "apns_response") ELSE @]
    /\ consumer' = [consumer EXCEPT ![cur[w]] = "idle"]
    /\ closes' = [closes EXCEPT ![cur[w]] = @ + 1]
    /\ UNCHANGED sendOnClosed
    /\ reconnect(w)
    /\ err' = [err EXCEPT ![w] = readError(@)]
    /\ pc' = [pc EXCEPT ![w] = afterExecute(readError(err[w]))]
    /\ UNCHANGED <<clientVars, nsub, valid, ret, writes, reads, cur, rdN, conn, commandErrorsQueue, envVars>>

\* executeCommand, read > 0: the non-blocking cmd.Errors() <- commandError,
\* then w.reconnect() and the return
executeResponseSend(w) ==
    /\ pc[w] = "responseSend"
    /\ trySendErrors(cur[w], "apns_response")
    /\ reconnect(w)
    /\ err' = [err EXCEPT ![w] = readError(@)]
    /\ pc' = [pc EXCEPT ![w] = afterExecute(readError(err[w]))]
    /\ UNCHANGED <<clientVars, nsub, valid, ret, writes, reads, cur, rdN, conn, commandErrorsQueue, envVars>>

\* executionLoopRoutine, err != nil: w.errorSignal <- commandError
loopErrorSignal(w) ==
    /\ pc[w] = "errorSignal"
    /\ errorSignal(<<err[w], cur[w]>>)
    /\ pc' = [pc EXCEPT ![w] = "errorSend"]
    /\ UNCHANGED <<clientVars, chanVars, cmdVars, cur, err, rdN, sigVars, conn, envVars>>

\* executionLoopRoutine, err != nil: the non-blocking
\* command.Errors() <- commandError
loopErrorSend(w) ==
    /\ pc[w] = "errorSend"
    /\ trySendErrors(cur[w], err[w])
    /\ pc' = [pc EXCEPT ![w] = "pauseOrReady"]
    /\ UNCHANGED <<clientVars, cmdVars, cur, err, rdN, sigVars, conn, commandErrorsQueue, envVars>>

\* faulty variant of loopPauseOrReady: a worker that found the pause signal
\* goes back to the outer select without closing the command's channel
loopPauseOrReadySkipClose(w) ==
    /\ pc[w] = "pauseOrReady"
    /\ IF pauseSignal[w] = 1
       THEN /\ pauseSignal' = [pauseSignal EXCEPT ![w] = 0]
            /\ pc' = [pc EXCEPT ![w] = "select"]
            /\ cur' = [cur EXCEPT ![w] = NoCmd]
            /\ err' = [err EXCEPT ![w] = "nil"]
            /\ rdN' = [rdN EXCEPT ![w] = 0]
            /\ UNCHANGED readySignal
       ELSE /\ readySignal[w] = 0
            /\ readySignal' = [readySignal EXCEPT ![w] = 1]
            /\ pc' = [pc EXCEPT ![w] = "close"]
            /\ UNCHANGED <<pauseSignal, cur, err, rdN>>
    /\ UNCHANGED <<clientVars, chanVars, cmdVars, rpc, conn, commandErrorsQueue, envVars>>

\* faulty variant of loopPauseOrReady: the pause signal is not looked at and
\* the worker always signals ready
loopPauseOrReadyIgnorePause(w) ==
    /\ pc[w] = "pauseOrReady"
    /\ readySignal[w] = 0
    /\ readySignal' = [readySignal EXCEPT ![w] = 1]
    /\ UNCHANGED pauseSignal
    /\ pc' = [pc EXCEPT ![w] = "close"]
    /\ UNCHANGED <<clientVars, chanVars, cmdVars, cur, err, rdN, rpc, conn, commandErrorsQueue, envVars>>

\* executionLoopRoutine: select { case <-w.pauseSignal: default: w.readySignal <- true }
loopPauseOrReady(w) ==
    /\ pc[w] = "pauseOrReady"
    /\ IF pauseSignal[w] = 1
       THEN /\ pauseSignal' = [pauseSignal EXCEPT ![w] = 0]
            /\ UNCHANGED readySignal
       ELSE /\ readySignal[w] = 0
            /\ readySignal' = [readySignal EXCEPT ![w] = 1]
            /\ UNCHANGED pauseSignal
    /\ pc' = [pc EXCEPT ![w] = "close"]
    /\ UNCHANGED <<clientVars, chanVars, cmdVars, cur, err, rdN, rpc, conn, commandErrorsQueue, envVars>>

\* executionLoopRoutine: close(command.Errors()), then back to the select
loopClose(w) ==
    /\ pc[w] = "close"
    /\ closeErrors(cur[w])
    /\ pc' = [pc EXCEPT ![w] = "select"]
    /\ cur' = [cur EXCEPT ![w] = NoCmd]
    /\ err' = [err EXCEPT ![w] = "nil"]
    /\ rdN' = [rdN EXCEPT ![w] = 0]
    /\ UNCHANGED <<clientVars, cmdVars, sigVars, conn, commandErrorsQueue, envVars>>

\* The goroutine started by worker.reconnect:
\*   w.disconnect(); err := w.connect()
\*   failure: w.errorSignal <- NewCommandError(err, nil), then w.quitSignal <- true
\*            (unbuffered: met by loopQuit)
\*   success: w.readySignal <- true
\* Up to its first blocking send the goroutine touches only the worker's
\* own connection, which nothing else uses meanwhile, so that is one step.
\* readySignal is empty here: the run loop took the pause signal instead of
\* re-signalling ready (ReadyFreeWhileReconnecting below).
reconnectRoutine(w) ==
    /\ rpc[w] = "running"
    /\ \E ok \in BOOLEAN :
         IF ok
         THEN /\ conn' = [conn EXCEPT ![w] = "open"]
              /\ readySignal[w] = 0
              /\ readySignal' = [readySignal EXCEPT ![w] = 1]
              /\ rpc' = [rpc EXCEPT ![w] = "none"]
              /\ UNCHANGED commandErrorsQueue
         ELSE /\ conn' = [conn EXCEPT ![w] = "closed"]
              /\ errorSignal(<<"connect", NoCmd>>)
              /\ rpc' = [rpc EXCEPT ![w] = "quit"]
              /\ UNCHANGED readySignal
    /\ UNCHANGED <<clientVars, chanVars, cmdVars, loopVars, pauseSignal, envVars>>

\* ------------------------------------------------ APNS response decoding
Byte == 0..255
HexDigits == <<"0", "1", "2", "3", "4", "5", "6", "7",
               "8", "9", "a", "b", "c", "d", "e", "f">>

\* hex.EncodeToString: two lowercase digits per byte, high nibble first
EncodeToString(src) ==
    [i \in 1..(2 * Len(src)) |->
        IF i % 2 = 1 THEN HexDigits[(src[(i + 1) \div 2] \div 16) + 1]
                     ELSE HexDigits[(src[i \div 2] % 16) + 1]]

PushNotificationErrorStatuses ==
    [s \in {0, 1, 2, 3, 4, 5, 6, 7, 8, 10, 255} |->
        CASE s = 0 -> "No errors encountered"
          [] s = 1 -> "Processing error"
          [] s = 2 -> "Missing device token"
          [] s = 3 -> "Missing topic"
          [] s = 4 -> "Missing payload"
          [] s = 5 -> "Invalid token size"
          [] s = 6 -> "Invalid topic size"
          [] s = 7 -> "Invalid payload size"
          [] s = 8 -> "Invalid token"
          [] s = 10 -> "Shutdown"
          [] s = 255 -> "Unknown"]

\* NewCommandErrorFromAPNSResponse: the CommandError's inner error, as
\* err ("nil": no error at all) with the description and the identifier
\* that its message is built from
NewCommandErrorFromAPNSResponse(data) ==
    IF Len(data) # ResponseLength
    THEN [err |-> "unrecognized", description |-> "", identifier |-> <<>>]
    ELSE LET statusCode == data[2]
             notificationIdentifier == EncodeToString(SubSeq(data, 3, Len(data)))
         IN  IF statusCode \in DOMAIN PushNotificationErrorStatuses
             THEN [err |-> "apns",
                   description |-> PushNotificationErrorStatuses[statusCode],
                   identifier |-> notificationIdentifier]
             ELSE [err |-> "nil", description |-> "", identifier |-> <<>>]

\* what a gateway may send back: command byte, status byte, identifier
PeerResponses ==
    {<<c, st>> \o id : c \in {8, 7}, st \in {0, 1, 7, 8, 9, 10, 11, 255},
                       id \in {<<170, 187, 204, 221>>, <<0, 1, 254, 255>>}}

\* responseBytes = make([]byte, 6) after Read stored the first n bytes
ReadInto(sent, n) ==
    [read |-> n, buf |-> [i \in 1..ResponseLength |-> IF i <= n THEN sent[i] ELSE 0]]

DecodeInit ==
    /\ ClientInit /\ \A w \in Workers : pc[w] = "noinit"
    /\ notification = None /\ cmdBytes = None /\ commandError = None
    /\ feedback = None /\ wire = None
    /\ responseBytes \in {ReadInto(sent, n) : sent \in PeerResponses, n \in 1..ResponseLength}

\* executeCommand, read > 0:
\*   commandError := NewCommandErrorFromAPNSResponse(responseBytes, cmd)
decodeResponse ==
    /\ responseBytes # None /\ commandError = None
    /\ commandError' = NewCommandErrorFromAPNSResponse(responseBytes.buf)
    /\ UNCHANGED <<clientVars, commandErrorsQueue, chanVars, cmdVars, loopVars, sigVars, conn>>
    /\ UNCHANGED <<clientErrors, notification, cmdBytes, responseBytes, feedback, wire>>

DecodeSpec == DecodeInit /\ [][decodeResponse]_vars

\* ------------------------------------------------ notification encoding
DeviceTokenItemID == 1
DeviceTokenItemLength == 32
PayloadItemID == 2
PayloadItemMaxLength == 2048
NotificationIdentifierItemID == 3
NotificationIdentifierItemLength == 4
ExpirationDateItemID == 4
ExpirationDateItemLength == 4
PriorityItemID == 5
PriorityItemLength == 1
SendNotificationCommandValue == 2

\* strings are sequences of one-character strings; k copies of unit
Repeat(unit, k) == [i \in 1..(k * Len(unit)) |-> unit[((i - 1) % Len(unit)) + 1]]

\* the bytes of the (ASCII) characters that payloads are made of here
Ascii(c) ==
    CASE c = "{" -> 123 [] c = "}" -> 125 [] c = "\"" -> 34 [] c = ":" -> 58
      [] c = "," -> 44 [] c = "0" -> 48 [] c = "a" -> 97 [] c = "e" -> 101
      [] c = "l" -> 108 [] c = "n" -> 110 [] c = "p" -> 112 [] c = "r" -> 114
      [] c = "s" -> 115 [] c = "t" -> 116 [] c = "u" -> 117 [] c = "w" -> 119
StringBytes(s) == [i \in DOMAIN s |-> Ascii(s[i])]

\* binary.Write(.., binary.BigEndian, uintN(v)) for N = 8 * n <= 32
BigEndian(v, n) == [i \in 1..n |-> (v \div (256 ^ (n - i))) % 256]

\* binary.Write(.., binary.BigEndian, int64): eight bytes, two's
\* complement; the values drawn here fit 32 bits, so the upper four are
\* the sign extension
BigEndianInt64(v) ==
    [i \in 1..8 |-> IF i <= 4 THEN (IF v < 0 THEN 255 ELSE 0)
                              ELSE (v \div (256 ^ (8 - i))) % 256]

\* errors: the message text with the numbers that strconv.Itoa put in it
NoError == [text |-> "", numbers |-> <<>>]
ErrInvalidByte == [text |-> "encoding/hex: invalid byte", numbers |-> <<>>]
ErrLength == [text |-> "encoding/hex: odd length hex string", numbers |-> <<>>]
ErrDeviceToken ==
    [text |-> "apns/notification: Device token has to be hex encoded N bytes long binary string",
     numbers |-> <<DeviceTokenItemLength>>]
ErrPayloadSize ==
    [text |-> "apns/notification: Notification payload size has to be N bytes at maximum",
     numbers |-> <<PayloadItemMaxLength>>]
ErrIdentifier ==
    [text |-> "apns/notification: Notification identifier has to be a hex encoded N bytes longs binary string",
     numbers |-> <<NotificationIdentifierItemLength>>]
ErrApsRequired == [text |-> "apns/notification: 'aps' object is required", numbers |-> <<>>]
ErrApsReserved ==
    [text |-> "apns/notification: 'aps' is a reserved and cannot be used for custom field",
     numbers |-> <<>>]

\* encoding/hex fromHexChar: the digit's value, 16 for any other character
UpperHexDigits == <<"A", "B", "C", "D", "E", "F">>
fromHexChar(c) ==
    IF \E i \in 1..16 : HexDigits[i] = c
    THEN (CHOOSE i \in 1..16 : HexDigits[i] = c) - 1
    ELSE IF \E i \in 1..6 : UpperHexDigits[i] = c
         THEN (CHOOSE i \in 1..6 : UpperHexDigits[i] = c) + 9
         ELSE 16

\* hex.DecodeString: pairs of digits, high nibble first; an invalid
\* character is reported before an odd length
DecodeString(s) ==
    LET n == Len(s) \div 2
    IN  IF \E i \in 1..Len(s) : fromHexChar(s[i]) > 15
        THEN [err |-> ErrInvalidByte, bytes |-> <<>>]
        ELSE IF Len(s) % 2 = 1
             THEN [err |-> ErrLength, bytes |-> <<>>]
             ELSE [err |-> NoError,
                   bytes |-> [i \in 1..n |-> 16 * fromHexChar(s[2 * i - 1])
                                              + fromHexChar(s[2 * i])]]

\* json.Marshal of *Aps: every field is omitempty, Alert is the only one
\* the payloads here set (an interface holding a string)
ApsJSON(aps) ==
    <<"{">>
    \o (IF aps.Alert.nil THEN <<>>
        ELSE <<"\"", "a", "l", "e", "r", "t", "\"", ":", "\"">> \o aps.Alert.body \o <<"\"">>)
    \o <<"}">>

\* faulty variant of MarshalJSON: the custom field is written into the aps
\* object
MarshalJSONUnderAps(p) ==
    IF p.Aps.nil
    THEN [err |-> ErrApsRequired, json |-> <<>>]
    ELSE IF "aps" \in p.customValues
         THEN [err |-> ErrApsReserved, json |-> <<>>]
         ELSE [err |-> NoError,
               json |-> <<"{", "\"", "a", "p", "s", "\"", ":", "{">>
                        \o (IF "w" \in p.customValues
                            THEN <<"\"", "w", "\"", ":", "\"", "s", "\"">>
                            ELSE <<>>)
                        \o <<"}", "}">>]

\* Payload.MarshalJSON; json.Marshal writes a map's keys sorted, and the
\* one custom field here is "w": "s"
MarshalJSON(p) ==
    IF p.Aps.nil
    THEN [err |-> ErrApsRequired, json |-> <<>>]
    ELSE IF "aps" \in p.customValues
         THEN [err |-> ErrApsReserved, json |-> <<>>]
         ELSE [err |-> NoError,
               json |-> <<"{", "\"", "a", "p", "s", "\"", ":">> \o ApsJSON(p.Aps)
                        \o (IF "w" \in p.customValues
                            THEN <<",", "\"", "w", "\"", ":", "\"", "s", "\"">>
                            ELSE <<>>)
                        \o <<"}">>]

\* Payload.JSON: json.Marshal(p) writes null for a nil pointer without
\* calling MarshalJSON
JSON(p) ==
    IF p.nil THEN [err |-> NoError, json |-> <<"n", "u", "l", "l">>]
    ELSE MarshalJSON(p)

\* faulty variant of NotificationItems: the identifier is written before
\* the payload
NotificationItemsIdentifierFirst(n) ==
    LET token == DecodeString(n.DeviceToken).bytes
        payload == StringBytes(JSON(n.Payload).json)
        identifier == DecodeString(n.NotificationIdentifier).bytes
    IN  <<[id |-> DeviceTokenItemID, length |-> DeviceTokenItemLength, content |-> token],
          [id |-> NotificationIdentifierItemID, length |-> NotificationIdentifierItemLength,
           content |-> identifier],
          [id |-> PayloadItemID, length |-> Len(payload), content |-> payload]>>
        \o (IF n.ExpirationDate.nil THEN <<>>
            ELSE <<[id |-> ExpirationDateItemID, length |-> ExpirationDateItemLength,
                    content |-> BigEndianInt64(n.ExpirationDate.unix)]>>)
        \o <<[id |-> PriorityItemID, length |-> PriorityItemLength,
              content |-> <<n.Priority>>]>>

\* the items Notification.Bytes writes when nothing is rejected, each as
\* the three binary.Write calls: id, declared length, content
NotificationItems(n) ==
    LET token == DecodeString(n.DeviceToken).bytes
        payload == StringBytes(JSON(n.Payload).json)
        identifier == DecodeString(n.NotificationIdentifier).bytes
    IN  <<[id |-> DeviceTokenItemID, length |-> DeviceTokenItemLength, content |-> token],
          [id |-> PayloadItemID, length |-> Len(payload), content |-> payload],
          [id |-> NotificationIdentifierItemID, length |-> NotificationIdentifierItemLength,
           content |-> identifier]>>
        \o (IF n.ExpirationDate.nil THEN <<>>
            ELSE <<[id |-> ExpirationDateItemID, length |-> ExpirationDateItemLength,
                    content |-> BigEndianInt64(n.ExpirationDate.unix)]>>)
        \o <<[id |-> PriorityItemID, length |-> PriorityItemLength,
              content |-> <<n.Priority>>]>>

\* frameBuffer after the writes of the items
RECURSIVE FrameBytes(_)
FrameBytes(items) ==
    IF items = <<>> THEN <<>>
    ELSE <<Head(items).id>> \o BigEndian(Head(items).length, 2) \o Head(items).content
         \o FrameBytes(Tail(items))

\* Notification.Bytes
NotificationBytes(n) ==
    LET token == DecodeString(n.DeviceToken)
        payload == JSON(n.Payload)
        identifier == DecodeString(n.NotificationIdentifier)
    IN  IF token.err # NoError THEN [err |-> token.err, bytes |-> <<>>]
        ELSE IF Len(token.bytes) # DeviceTokenItemLength
        THEN [err |-> ErrDeviceToken, bytes |-> <<>>]
        ELSE IF payload.err # NoError THEN [err |-> payload.err, bytes |-> <<>>]
        ELSE IF Len(payload.json) > PayloadItemMaxLength
        THEN [err |-> ErrPayloadSize, bytes |-> <<>>]
        ELSE IF identifier.err # NoError THEN [err |-> identifier.err, bytes |-> <<>>]
        ELSE IF Len(identifier.bytes) # NotificationIdentifierItemLength
        THEN [err |-> ErrIdentifier, bytes |-> <<>>]
        ELSE [err |-> NoError, bytes |-> FrameBytes(NotificationItems(n))]

\* faulty variant of PushNotificationCommandBytes: the length field counts
\* the five header bytes too
PushNotificationCommandBytesWholeLength(n) ==
    LET notificationBytes == NotificationBytes(n)
    IN  IF notificationBytes.err # NoError
        THEN [err |-> notificationBytes.err, bytes |-> <<>>]
        ELSE [err |-> NoError,
              bytes |-> <<SendNotificationCommandValue>>
                        \o BigEndian(Len(notificationBytes.bytes) + 5, 4)
                        \o notificationBytes.bytes]

\* PushNotificationCommand.Bytes
PushNotificationCommandBytes(n) ==
    LET notificationBytes == NotificationBytes(n)
    IN  IF notificationBytes.err # NoError
        THEN [err |-> notificationBytes.err, bytes |-> <<>>]
        ELSE [err |-> NoError,
              bytes |-> <<SendNotificationCommandValue>>
                        \o BigEndian(Len(notificationBytes.bytes), 4)
                        \o notificationBytes.bytes]

\* the notifications a caller may build
NilAlert == [nil |-> TRUE, body |-> <<>>]
StringAlert(k) == [nil |-> FALSE, body |-> Repeat(<<"0">>, k)]
NilAps == [nil |-> TRUE, Alert |-> NilAlert]
NilPayload == [nil |-> TRUE, Aps |-> NilAps, customValues |-> {}]
AlertSizes == {2, 2028, 2029, 2057}
Payloads ==
    {NilPayload,
     [nil |-> FALSE, Aps |-> NilAps, customValues |-> {}],
     [nil |-> FALSE, Aps |-> [nil |-> FALSE, Alert |-> NilAlert], customValues |-> {}],
     [nil |-> FALSE, Aps |-> [nil |-> FALSE, Alert |-> StringAlert(2)], customValues |-> {"w"}],
     [nil |-> FALSE, Aps |-> [nil |-> FALSE, Alert |-> StringAlert(2)], customValues |-> {"aps"}],
     [nil |-> FALSE, Aps |-> [nil |-> FALSE, Alert |-> StringAlert(2)], customValues |-> {"aps", "w"}],
     [nil |-> FALSE, Aps |-> [nil |-> FALSE, Alert |-> NilAlert], customValues |-> {"w"}]}
    \cup {[nil |-> FALSE, Aps |-> [nil |-> FALSE, Alert |-> StringAlert(k)],
           customValues |-> {}] : k \in AlertSizes}
DeviceTokens ==
    {Repeat(<<"a", "b">>, 32), Repeat(<<"0", "F">>, 32), Repeat(<<"0", "0">>, 31),
     Repeat(<<"0">>, 63), <<"S", "o", "m", "e">>}
NotificationIdentifiers ==
    {<<"a", "a", "b", "b", "c", "c", "d", "d">>,
     <<"a", "a", "b", "b", "c", "c", "d", "d", "e", "e">>,
     <<"a", "a", "b", "b", "c", "c">>,
     <<"A", "n">>}
ExpirationDates ==
    {[nil |-> TRUE, unix |-> 0], [nil |-> FALSE, unix |-> 1], [nil |-> FALSE, unix |-> 1446681600]}
Priorities == {5, 10}
Notifications ==
    [DeviceToken : DeviceTokens, Payload : Payloads,
     NotificationIdentifier : NotificationIdentifiers,
     ExpirationDate : ExpirationDates, Priority : Priorities]

EncodeInit ==
    /\ ClientInit /\ \A w \in Workers : pc[w] = "noinit"
    /\ cmdBytes = None /\ responseBytes = None /\ commandError = None
    /\ feedback = None /\ wire = None
    /\ notification \in Notifications

\* executeCommand: cmdBytes, err = cmd.Bytes()
encodeCommand ==
    /\ notification # None /\ cmdBytes = None
    /\ cmdBytes' = PushNotificationCommandBytes(notification)
    /\ UNCHANGED <<clientVars, commandErrorsQueue, chanVars, cmdVars, loopVars, sigVars, conn>>
    /\ UNCHANGED <<clientErrors, notification, responseBytes, commandError, feedback, wire>>

EncodeSpec == EncodeInit /\ [][encodeCommand]_vars

\* ------------------------------------------------ feedback service
TimestampItemLength == 4
DeviceTokenLengthItemLength == 2
FeedbackEntryLength == TimestampItemLength + DeviceTokenLengthItemLength + DeviceTokenItemLength

\* how many reads bring data before the stream ends
MaxReads == 3

\* binary.Read(.., binary.BigEndian, &timestamp) with a uint32
BigEndianUint32(b) == b[1] * 16777216 + b[2] * 65536 + b[3] * 256 + b[4]

\* faulty variant of addEntryFromBytes: the token is taken from data[4:],
\* with the two length bytes
addEntryFromBytesWithLength(Devices, data) ==
    IF Len(data) # FeedbackEntryLength
    THEN [err |-> "unrecognized", Devices |-> Devices]
    ELSE [err |-> "nil",
          Devices |-> Append(Devices,
                             [Timestamp |-> BigEndianUint32(SubSeq(data, 1, 4)),
                              DeviceToken |-> EncodeToString(SubSeq(data, 5, Len(data)))])]

\* FeedbackResponse.addEntryFromBytes: fs.Devices afterwards, and the
\* error returned
addEntryFromBytes(Devices, data) ==
    IF Len(data) # FeedbackEntryLength
    THEN [err |-> "unrecognized", Devices |-> Devices]
    ELSE [err |-> "nil",
          Devices |-> Append(Devices,
                             [Timestamp |-> BigEndianUint32(SubSeq(data, 1, 4)),
                              DeviceToken |-> EncodeToString(SubSeq(data, 7, Len(data)))])]

\* what the feedback service sends: timestamp, token length 32, token
FeedbackRecord(ts, token) == ts \o <<0, 32>> \o token
FeedbackRecords ==
    {FeedbackRecord(<<0, 0, 0, 1>>, Repeat(<<0>>, 32)),
     FeedbackRecord(<<0, 0, 0, 2>>, Repeat(<<255>>, 32)),
     FeedbackRecord(<<86, 59, 72, 128>>, Repeat(<<1, 35, 171, 239>>, 8))}
\* what one Read may bring: a whole record, or the first bytes of one
ReadChunks ==
    FeedbackRecords
    \cup {SubSeq(FeedbackRecord(<<0, 0, 0, 2>>, Repeat(<<255>>, 32)), 1, 10)}
\* how the stream ends: the peer closes, the read deadline passes, or the
\* connection fails (tls.Conn keeps returning that error)
ReadEnds == {"EOF", "timeout", "error"}
FeedbackStreams == UNION {[1..k -> ReadChunks] : k \in 0..MaxReads}

\* CheckFeedbackService after the handshake: responseBytes = make([]byte,
\* 38), rsp = new(FeedbackResponse)
FeedbackInit ==
    /\ ClientInit /\ \A w \in Workers : pc[w] = "noinit"
    /\ notification = None /\ cmdBytes = None
    /\ responseBytes = None /\ commandError = None /\ wire = None
    /\ \E s \in FeedbackStreams, e \in ReadEnds :
         feedback = [pc |-> "read", sent |-> s, end |-> e, stream |-> s,
                     responseBytes |-> Repeat(<<0>>, FeedbackEntryLength),
                     read |-> 0, err |-> "nil", Devices |-> <<>>]

\* tlsConn.Read(responseBytes): the bytes read replace the first ones of
\* the buffer
ReadIntoBuffer(buf, chunk) ==
    [i \in 1..Len(buf) |-> IF i <= Len(chunk) THEN chunk[i] ELSE buf[i]]

\* one turn of the read loop of CheckFeedbackService
feedbackRead ==
    /\ feedback # None /\ feedback.pc = "read"
    /\ LET more == feedback.stream # <<>>
           read == IF more THEN Len(Head(feedback.stream)) ELSE 0
           readErr == IF more THEN "nil" ELSE feedback.end
           buf == IF more THEN ReadIntoBuffer(feedback.responseBytes, Head(feedback.stream))
                          ELSE feedback.responseBytes
           Devices == IF read > 0 THEN addEntryFromBytes(feedback.Devices, buf).Devices
                                  ELSE feedback.Devices
       IN  feedback' =
             [feedback EXCEPT
                !.stream = IF more THEN Tail(@) ELSE @,
                !.responseBytes = buf,
                !.read = read,
                !.Devices = Devices,
                !.err = IF readErr \in {"EOF", "timeout"} THEN "nil" ELSE readErr,
                !.pc = IF readErr \in {"EOF", "timeout"} THEN "returned" ELSE "read"]
    /\ UNCHANGED <<clientVars, commandErrorsQueue, chanVars, cmdVars, loopVars, sigVars, conn>>
    /\ UNCHANGED <<clientErrors, notification, cmdBytes, responseBytes, commandError, wire>>

FeedbackSpec == FeedbackInit /\ [][feedbackRead]_vars
\* the goroutine running CheckFeedbackService keeps running
FeedbackFairSpec == FeedbackSpec /\ WF_vars(feedbackRead)

\* ------------------------------------------------ responses on a connection
Elems(q) == {q[i] : i \in 1..Len(q)}

\* the commands one worker gets in a row
MaxWireCmds == 3
WireCmds == 1..MaxWireCmds

\* cmd.Identifier(): the notification identifier, eight hex digits
IdentifierBytes(c) == <<0, 0, 171, c>>
Identifier(c) == EncodeToString(IdentifierBytes(c))

\* the statuses the gateway complains with here
ResponseStatuses == {1, 7, 8}

\* One worker and the commands it executes one after the other on its
\* connection: written holds the commands written since the last connect,
\* reports what executeCommand handed out (the CommandError with its
\* back-reference, and the command whose channel it was offered to)
WireInit ==
    /\ ClientInit /\ \A w \in Workers : pc[w] = "noinit"
    /\ notification = None /\ cmdBytes = None
    /\ responseBytes = None /\ commandError = None /\ feedback = None
    /\ wire = [pc |-> "await", cmd |-> NoCmd, done |-> {}, written |-> <<>>,
               responseBytes |-> [i \in 1..ResponseLength |-> 0], reports |-> <<>>]

\* case command := <-w.workQueue, then executeCommand up to a successful
\* w.tlsConn.Write(cmdBytes)
wireWrite(c) ==
    /\ wire # None /\ wire.pc = "await" /\ c \notin wire.done
    /\ wire' = [wire EXCEPT !.pc = "read", !.cmd = c, !.written = Append(@, c)]
    /\ UNCHANGED <<clientVars, commandErrorsQueue, chanVars, cmdVars, loopVars, sigVars, conn>>
    /\ UNCHANGED <<clientErrors, notification, cmdBytes, responseBytes, commandError, feedback>>

\* executeCommand: the Read times out after 500 ms with nothing read; the
\* command is done, the connection stays
wireReadTimeout ==
    /\ wire # None /\ wire.pc = "read"
    /\ wire' = [wire EXCEPT !.pc = "await", !.cmd = NoCmd, !.done = @ \cup {wire.cmd}]
    /\ UNCHANGED <<clientVars, commandErrorsQueue, chanVars, cmdVars, loopVars, sigVars, conn>>
    /\ UNCHANGED <<clientErrors, notification, cmdBytes, responseBytes, commandError, feedback>>

\* executeCommand, read > 0: the gateway's error response about one of the
\* notifications it got on this connection;
\*   commandError := NewCommandErrorFromAPNSResponse(responseBytes, cmd)
\*   cmd.Errors() <- commandError (non-blocking), w.reconnect()
wireReadResponse(about, status) ==
    /\ wire # None /\ wire.pc = "read"
    /\ about \in Elems(wire.written)
    /\ LET buf == <<8, status>> \o IdentifierBytes(about)
       IN  wire' = [wire EXCEPT
                      !.pc = "await", !.cmd = NoCmd, !.done = @ \cup {wire.cmd},
                      !.written = <<>>,
                      !.responseBytes = buf,
                      !.reports = Append(@, [error |-> NewCommandErrorFromAPNSResponse(buf),
                                             command |-> wire.cmd,
                                             channel |-> wire.cmd])]
    /\ UNCHANGED <<clientVars, commandErrorsQueue, chanVars, cmdVars, loopVars, sigVars, conn>>
    /\ UNCHANGED <<clientErrors, notification, cmdBytes, responseBytes, commandError, feedback>>

WireNext ==
    \/ \E c \in WireCmds : wireWrite(c)
    \/ wireReadTimeout
    \/ \E c \in WireCmds, st \in ResponseStatuses : wireReadResponse(c, st)
WireSpec == WireInit /\ [][WireNext]_vars

Next ==
    \/ \E c \in Cmds, v \in BOOLEAN : ExecuteCommand(c, v)
    \/ dispatchLoop
    \/ \E c \in Cmds : dispatchTakeWorker(c)
    \/ \E c \in Cmds : dispatchForward(c)
    \/ errorsRoutine
    \/ \E c \in Cmds : Receive(c)
    \/ \E w \in Workers : loopReady(w)
    \/ \E w \in Workers : loopQuit(w)
    \/ \E w \in Workers : loopRegister(w)
    \/ \E w \in Workers : executeBytes(w)
    \/ \E w \in Workers : executeWrite(w)
    \/ \E w \in Workers : executeRead(w)
    \/ \E w \in Workers : executeResponseSignal(w)
    \/ \E w \in Workers : executeResponseSend(w)
    \/ \E w \in Workers : loopErrorSignal(w)
    \/ \E w \in Workers : loopErrorSend(w)
    \/ \E w \in Workers : loopPauseOrReady(w)
    \/ \E w \in Workers : loopClose(w)
    \/ \E w \in Workers : reconnectRoutine(w)

Spec == Init /\ [][Next]_vars

\* Every goroutine of the package that can take a step eventually takes
\* one (the Go scheduler); callers of ExecuteCommand and receivers of a
\* command's channel are outside the package and owe nothing.
Fairness ==
    /\ WF_vars(dispatchLoop)
    /\ WF_vars(errorsRoutine)
    /\ \A c \in Cmds : WF_vars(dispatchTakeWorker(c)) /\ WF_vars(dispatchForward(c))
    /\ \A w \in Workers :
         /\ WF_vars(loopReady(w) \/ loopQuit(w))
         /\ WF_vars(loopRegister(w))
         /\ WF_vars(executeBytes(w))
         /\ WF_vars(executeWrite(w))
         /\ WF_vars(executeRead(w))
         /\ WF_vars(executeResponseSignal(w))
         /\ WF_vars(executeResponseSend(w))
         /\ WF_vars(loopErrorSignal(w))
         /\ WF_vars(loopErrorSend(w))
         /\ WF_vars(loopPauseOrReady(w))
         /\ WF_vars(loopClose(w))
         /\ WF_vars(reconnectRoutine(w))

FairSpec == Spec /\ Fairness

\* ---------------------------------------------------------------- helpers
InQueue(c) == \E i \in 1..Len(commandsQueue) : commandsQueue[i] = c
Registered(w) == \E i \in 1..Len(workerQueue) : workerQueue[i] = w
Executors(c) == {w \in Workers : cur[w] = c}
\* accepted and not yet finalized by a worker
InFlight(c) == InQueue(c) \/ c \in pending \/ holder[c] # 0 \/ Executors(c) # {}
\* accepted and not yet forwarded to a worker inbox
Waiting(c) == InQueue(c) \/ c \in pending \/ holder[c] # 0

\* the outer select never finds a pause signal waiting
PauseTakenInside == \A w \in Workers : pc[w] = "select" => pauseSignal[w] = 0

\* the reconnect goroutine's send on readySignal finds the buffer empty
ReadyFreeWhileReconnecting == \A w \in Workers : rpc[w] # "none" => readySignal[w] = 0

\* ---------------------------------------------------------------- claims

\* C1: a command's error channel is closed at most once and never sent on
\* after the close; a queue-full rejection closes it inside ExecuteCommand
\* and the command is never enqueued, dispatched, written or executed; an
\* accepted command stays open while it is queued, dispatched or executing,
\* is executed by one worker only, and is closed once that worker is done.
C1_ClosedAtMostOnce ==
    \A c \in Cmds :
        /\ closes[c] <= 1
        /\ ~sendOnClosed[c]
        /\ Cardinality(Executors(c)) <= 1
        /\ ret[c] = "none" => closes[c] = 0 /\ ~InFlight(c)
        /\ ret[c] = "queue_full" =>
              closes[c] = 1 /\ ~InFlight(c) /\ writes[c] = 0 /\ offered[c] = <<>>
        /\ ret[c] = "nil" => (closes[c] = 0 <=> InFlight(c))

C1_Witness ==
    \E c, d \in Cmds :
        /\ ret[c] = "queue_full" /\ closes[c] = 1
        /\ ret[d] = "nil" /\ closes[d] = 1 /\ recvd[d] = <<"apns_response">>

\* C2: every command accepted by ExecuteCommand eventually has its error
\* channel closed (under FairSpec).
C2_AcceptedEventuallyClosed ==
    \A c \in Cmds : (ret[c] = "nil") ~> (closes[c] > 0)

\* C3: ExecuteCommand never blocks; with fewer than capacity commands in the
\* queue it enqueues the command, returns nil and leaves the error channel
\* open; with the queue at capacity it leaves the queue as it is, closes the
\* error channel and returns the queue-full error.
C3_ExecuteCommandStep ==
    nsub' # nsub =>
        /\ nsub' = nsub + 1
        /\ IF Len(commandsQueue) < queueSize
           THEN /\ commandsQueue' = Append(commandsQueue, nsub')
                /\ ret'[nsub'] = "nil"
                /\ closes'[nsub'] = 0
           ELSE /\ commandsQueue' = commandsQueue
                /\ ret'[nsub'] = "queue_full"
                /\ closes'[nsub'] = 1

C3_NonBlockingSubmit ==
    /\ [](nsub < MaxCmds => ENABLED (\E v \in BOOLEAN : ExecuteCommand(nsub + 1, v)))
    /\ [](\A c \in Cmds : (ret[c] # "none") <=> (c <= nsub))
    /\ [][C3_ExecuteCommandStep]_vars

C3_Witness ==
    \E c, d \in Cmds :
        /\ ret[c] = "nil" /\ closes[c] = 0 /\ InQueue(c)
        /\ ret[d] = "queue_full" /\ closes[d] = 1

\* C4: with capacity 1 and no worker at all, of two consecutive submits the
\* first succeeds with its channel open and the second is rejected with
\* queue-full and its channel closed.
C4_SecondSubmitRejected ==
    (queueSize = 1 /\ nsub >= 2 /\ \A w \in Workers : pc[w] = "noinit") =>
        /\ ret[1] = "nil" /\ closes[1] = 0
        /\ ret[2] = "queue_full" /\ closes[2] = 1

\* C5: the commands accepted and not yet forwarded to a worker inbox never
\* number more than the queue capacity.
C5_WaitingWithinCapacity ==
    Cardinality({c \in Cmds : Waiting(c)}) <= queueSize

\* C6: once a command's channel is closed, every error its execution raised
\* has been obtained by the receiver of the channel.
C6_EveryErrorObtained ==
    \A c \in Cmds : closes[c] > 0 => Elems(offered[c]) \subseteq Elems(recvd[c])

\* C7: a command's error channel carries at most one error.
C7_AtMostOneError ==
    \A c \in Cmds : Len(recvd[c]) <= 1

\* C8: when encoding fails, the worker neither writes nor reads, schedules
\* no reconnect, delivers the validation error to the command's channel,
\* closes the channel and has re-signalled ready.
C8_EncodeFailure ==
    /\ \A w \in Workers :
          (pc[w] = "close" /\ ~valid[cur[w]]) => readySignal[w] = 1 /\ rpc[w] = "none"
    /\ \A c \in Cmds :
          (ret[c] = "nil" /\ ~valid[c] /\ closes[c] > 0) =>
              /\ writes[c] = 0 /\ reads[c] = 0 /\ ~reconnFor[c]
              /\ closes[c] = 1
              /\ recvd[c] = <<"validation">>

\* C9: each worker's inbox occurs at most once in the ready registry, the
\* registry never holds more entries than there are workers, and a worker
\* about to register finds room (its send does not block).
C9_RegistryAtMostOnce ==
    /\ Len(workerQueue) <= NumWorkers
    /\ \A i, j \in 1..Len(workerQueue) : workerQueue[i] = workerQueue[j] => i = j
    /\ \A w \in Workers : pc[w] = "register" => Len(workerQueue) < NumWorkers

C9_Witness ==
    /\ Len(workerQueue) = NumWorkers
    /\ \E c \in Cmds : ret[c] = "nil" /\ closes[c] = 1

\* C10: a worker's inbox is in the ready registry only while the worker
\* holds an open connection.
C10_RegisteredOnlyWhenOpen ==
    \A w \in Workers : Registered(w) => conn[w] = "open"

\* C11: each worker holds at most one in-flight command. A registration of
\* a worker's inbox is used by at most one dispatch goroutine, the worker
\* waits on its inbox exactly while that registration is outstanding, and a
\* command reaches a worker only when the worker is waiting on its inbox
\* with no command in hand, i.e. after the write and read of the previous
\* command have finished and the worker has registered again.
Holders(w) == {c \in Cmds : holder[c] = w}

C11_Registrations(w) == Cardinality(Holders(w)) + (IF Registered(w) THEN 1 ELSE 0)

C11_ForwardStep ==
    \A w \in Workers :
        (cur'[w] # cur[w] /\ cur'[w] # NoCmd) =>
            /\ cur[w] = NoCmd /\ pc[w] = "await"
            /\ holder[cur'[w]] = w /\ holder'[cur'[w]] = 0
            /\ Executors(cur'[w]) = {}
            /\ C11_Registrations(w) = 1

C11_OneInFlightPerWorker ==
    /\ [](\A w \in Workers :
            /\ C11_Registrations(w) <= 1
            /\ (pc[w] = "await") <=> (C11_Registrations(w) = 1)
            /\ (cur[w] = NoCmd) <=> (pc[w] \in {"noinit", "select", "register", "await", "exited"}))
    /\ [][C11_ForwardStep]_vars

C11_Witness ==
    \E w \in Workers :
        /\ cur[w] = 2 /\ pc[w] = "read"
        /\ closes[1] = 1 /\ reads[1] = 1
        /\ \A v \in Workers \ {w} : pc[v] = "noinit"

\* C12: commands are forwarded to worker inboxes in the order in which
\* ExecuteCommand accepted them: of two accepted commands, the later one is
\* never forwarded while the earlier one still waits for a worker.
C12_ForwardedInFIFOOrder ==
    \A c, d \in Cmds :
        (c < d /\ ret[c] = "nil" /\ ret[d] = "nil" /\ Waiting(c)) => Waiting(d)

\* C13: when the read after a successful write returned bytes, the command's
\* channel yields the APNS error decoded from them and is then closed; the
\* worker finds the pause signal instead of re-signalling ready, and while
\* its reconnect has not succeeded it has no ready signal, is not about to
\* register and is not in the registry.
C13_ErrorResponseHandled ==
    /\ \A w \in Workers :
          /\ (pc[w] = "pauseOrReady" /\ rdN[w] > 0) => pauseSignal[w] = 1
          /\ rpc[w] # "none" =>
                /\ readySignal[w] = 0
                /\ pc[w] \notin {"register", "await"}
                /\ ~Registered(w) /\ Holders(w) = {}
    /\ \A c \in Cmds :
          (closes[c] > 0 /\ "apns_response" \in Elems(offered[c])) =>
              /\ reads[c] = 1 /\ reconnFor[c]
              /\ closes[c] = 1
              /\ recvd[c] # <<>> /\ recvd[c][1] = "apns_response"

\* C14: when the write succeeded and the read ended with the deadline
\* timeout and zero bytes (the connection stays usable), executeCommand
\* returns nil: nothing is offered to the command's channel, nothing goes to
\* the process-wide stream, no reconnect is scheduled, the run loop finds no
\* pause signal, re-signals ready and closes the channel.
C14_TimedOut(w) == err[w] = "nil" /\ rdN[w] = 0 /\ reads[cur[w]] = 1

C14_Quiet == UNCHANGED <<offered, recvd, commandErrorsQueue, rpc, reconnFor, conn>>

C14_TimeoutStep ==
    \A w \in Workers :
        /\ (pc[w] = "read" /\ pc'[w] # "read" /\ rdN'[w] = 0 /\ conn'[w] = "open") =>
              /\ err'[w] = "nil" /\ pc'[w] = "pauseOrReady"
              /\ C14_Quiet /\ UNCHANGED <<readySignal, pauseSignal, closes>>
        /\ (pc[w] = "pauseOrReady" /\ C14_TimedOut(w) /\ pc'[w] # pc[w]) =>
              /\ pc'[w] = "close"
              /\ readySignal[w] = 0 /\ readySignal'[w] = 1
              /\ C14_Quiet /\ UNCHANGED <<pauseSignal, closes>>
        /\ (pc[w] = "close" /\ C14_TimedOut(w) /\ pc'[w] # pc[w]) =>
              /\ pc'[w] = "select"
              /\ closes[cur[w]] = 0 /\ closes'[cur[w]] = 1
              /\ C14_Quiet /\ UNCHANGED <<readySignal, pauseSignal>>

C14_TimeoutIsDelivered ==
    /\ [](\A w \in Workers :
            (pc[w] \in {"pauseOrReady", "close"} /\ C14_TimedOut(w)) =>
                /\ writes[cur[w]] = 1
                /\ offered[cur[w]] = <<>> /\ recvd[cur[w]] = <<>>
                /\ ~reconnFor[cur[w]] /\ rpc[w] = "none"
                /\ pauseSignal[w] = 0
                /\ conn[w] = "open"
                /\ (pc[w] = "close" => readySignal[w] = 1))
    /\ [][C14_TimeoutStep]_vars

C14_Witness ==
    \E c \in Cmds, w \in Workers :
        /\ writes[c] = 1 /\ reads[c] = 1
        /\ closes[c] = 1 /\ offered[c] = <<>> /\ ~reconnFor[c]
        /\ pc[w] = "await" /\ conn[w] = "open"
        /\ \A v \in Workers \ {w} : pc[v] = "noinit"

\* C15: when the write succeeded and the read returned EOF with zero bytes
\* (the one case where a reconnect is scheduled though no response was
\* read), a reconnect is scheduled and the command counts as delivered: its
\* channel carries no error.
C15_ZeroByteEOFIsDelivered ==
    /\ \A w \in Workers :
          (cur[w] # NoCmd /\ reads[cur[w]] = 1 /\ rdN[w] = 0 /\ conn[w] = "broken"
             /\ err[w] = "read_closed") => reconnFor[cur[w]]
    /\ \A c \in Cmds :
          (reads[c] = 1 /\ reconnFor[c] /\ "apns_response" \notin Elems(offered[c])) =>
              recvd[c] = <<>>

\* C16: when the socket write failed (EOF or broken pipe), the worker's
\* error is the peer-closed error, a reconnect has been scheduled, and once
\* the channel is closed the command's owner has obtained that error.
C16_WriteFailureSurfaced ==
    /\ \A w \in Workers :
          (cur[w] # NoCmd /\ writes[cur[w]] = 1 /\ reads[cur[w]] = 0
             /\ pc[w] \in {"errorSignal", "errorSend", "pauseOrReady", "close"}) =>
              err[w] = "write_closed" /\ reconnFor[cur[w]]
    /\ \A c \in Cmds :
          (writes[c] = 1 /\ reads[c] = 0 /\ closes[c] > 0) =>
              recvd[c] = <<"write_closed">>

\* C17: an error response read by a worker causes exactly one reconnect of
\* that worker: the step that handles the response schedules it (no other
\* reconnect of the worker is running, none was scheduled for the command
\* before), the reconnect goroutine closes and redials once, and a further
\* reconnect is scheduled only while executing a later command. Neither step
\* changes another worker's connection, signals, position or command, nor
\* the registry and the inboxes held by dispatch goroutines.
C17_OthersUntouched(w) ==
    /\ \A v \in Workers \ {w} :
          UNCHANGED <<conn[v], pc[v], cur[v], err[v], rdN[v],
                      readySignal[v], pauseSignal[v], rpc[v]>>
    /\ UNCHANGED <<workerQueue, holder, pending, commandsQueue>>

C17_ReconnectStep ==
    \A w \in Workers :
        /\ (pc[w] = "responseSend" /\ pc'[w] # "responseSend") =>
              /\ rpc[w] = "none" /\ rpc'[w] = "running"
              /\ pauseSignal[w] = 0 /\ pauseSignal'[w] = 1
              /\ ~reconnFor[cur[w]] /\ reconnFor'[cur[w]]
              /\ UNCHANGED <<conn[w], readySignal[w]>>
              /\ C17_OthersUntouched(w)
        /\ (rpc[w] = "running" /\ rpc'[w] # "running") =>
              /\ conn'[w] \in {"open", "closed"}
              /\ rpc'[w] = (IF conn'[w] = "open" THEN "none" ELSE "quit")
              /\ readySignal'[w] = (IF conn'[w] = "open" THEN 1 ELSE 0)
              /\ UNCHANGED <<pc[w], cur[w], pauseSignal[w]>>
              /\ C17_OthersUntouched(w)
        /\ (rpc[w] # "running" /\ rpc'[w] = "running") =>
              /\ pc[w] \in {"write", "read", "responseSend"}
              /\ rpc[w] = "none"
              /\ ~reconnFor[cur[w]]

C17_OneReconnectOneWorker ==
    /\ [](\A w \in Workers :
            /\ pc[w] \in {"bytes", "write", "read", "responseSignal", "responseSend"} =>
                  rpc[w] = "none" /\ pauseSignal[w] = 0
            /\ (cur[w] # NoCmd /\ rdN[w] > 0 /\ pc[w] \notin {"responseSignal", "responseSend"}) =>
                  reconnFor[cur[w]])
    /\ [][C17_ReconnectStep]_vars

C17_Witness ==
    \E w, v \in Workers :
        /\ w # v
        /\ rdN[w] > 0 /\ pc[w] = "close" /\ rpc[w] = "none"
        /\ conn[w] = "open" /\ readySignal[w] = 1
        /\ cur[v] # NoCmd /\ pc[v] = "read" /\ conn[v] = "open"

\* The runs in which every connect succeeds: NewClient found every worker
\* connected and no reconnect goroutine ever sees connect fail (so no worker
\* is ever told to quit). Scheduling is fair as in FairSpec. The steps are
\* those of the package's goroutines and of the callers of ExecuteCommand;
\* the owners of the commands do not receive here: every send to an owner
\* is the non-blocking select of trySendErrors, so no step waits for one.
HealthyInit == Init /\ \A w \in Workers : pc[w] = "select"

HealthyNext ==
    \/ \E c \in Cmds, v \in BOOLEAN : ExecuteCommand(c, v)
    \/ dispatchLoop
    \/ \E c \in Cmds : dispatchTakeWorker(c)
    \/ \E c \in Cmds : dispatchForward(c)
    \/ errorsRoutine
    \/ \E w \in Workers : loopReady(w)
    \/ \E w \in Workers : loopRegister(w)
    \/ \E w \in Workers : executeBytes(w)
    \/ \E w \in Workers : executeWrite(w)
    \/ \E w \in Workers : executeRead(w)
    \/ \E w \in Workers : executeResponseSignal(w)
    \/ \E w \in Workers : executeResponseSend(w)
    \/ \E w \in Workers : loopErrorSignal(w)
    \/ \E w \in Workers : loopErrorSend(w)
    \/ \E w \in Workers : loopPauseOrReady(w)
    \/ \E w \in Workers : loopClose(w)
    \/ \E w \in Workers : reconnectRoutine(w) /\ rpc'[w] = "none"

HealthySpec == HealthyInit /\ [][HealthyNext]_vars /\ Fairness

\* C18: in a run in which every connect and reconnect succeeds, every
\* command accepted by ExecuteCommand is eventually taken through its
\* execution by a worker and has its channel closed (under HealthySpec),
\* reconnects forced by error responses included.
C18_HealthyRunCloses ==
    \A c \in Cmds : (ret[c] = "nil") ~> (closes[c] = 1 /\ ~InFlight(c))

C18_Witness ==
    /\ \A w \in Workers : pc[w] \notin {"noinit", "exited"} /\ rpc[w] # "quit"
    /\ \A c \in Cmds :
          /\ ret[c] = "nil" /\ closes[c] = 1
          /\ "apns_response" \in Elems(offered[c]) /\ reconnFor[c]

\* C19: when a worker's reconnect fails, the reconnect goroutine hands the
\* terminal error (a CommandError without command) to the process-wide
\* stream, which takes it unless it is full, and then offers the quit
\* signal. The run loop is then at its outer select or on its way there
\* through steps that cannot block, has no ready signal and is not
\* registered; at the select only the quit case can run, and taking it ends
\* the loop. An exited worker stays exited, never has a ready signal and
\* never is in the registry or held by a dispatch goroutine.
C19_Terminal == <<"connect", NoCmd>>

C19_Idle(w) == readySignal[w] = 0 /\ ~Registered(w) /\ Holders(w) = {}

C19_QuitStep ==
    \A w \in Workers :
        /\ (rpc[w] = "running" /\ rpc'[w] = "quit") =>
              /\ conn'[w] = "closed"
              /\ Len(commandErrorsQueue) < queueSize =>
                    commandErrorsQueue' = Append(commandErrorsQueue, C19_Terminal)
        /\ (rpc[w] = "quit" /\ rpc'[w] # "quit") =>
              pc[w] = "select" /\ pc'[w] = "exited" /\ rpc'[w] = "none"
        /\ pc[w] = "exited" => pc'[w] = "exited"

C19_FailedReconnectEndsWorker ==
    /\ [](\A w \in Workers :
            /\ rpc[w] = "quit" =>
                  /\ C19_Idle(w)
                  /\ pc[w] \in {"errorSignal", "errorSend", "pauseOrReady", "close", "select"}
                  /\ pc[w] = "select" => ENABLED loopQuit(w) /\ ~ENABLED loopReady(w)
                  /\ pc[w] # "select" =>
                        ENABLED (\/ loopErrorSignal(w) \/ loopErrorSend(w)
                                 \/ loopPauseOrReady(w) \/ loopClose(w))
            /\ pc[w] = "exited" =>
                  /\ C19_Idle(w)
                  /\ rpc[w] = "none" /\ cur[w] = NoCmd /\ conn[w] = "closed")
    /\ [][C19_QuitStep]_vars

C19_Witness ==
    \E w \in Workers :
        /\ pc[w] = "exited"
        /\ C19_Terminal \in Elems(commandErrorsQueue)
        /\ \E c \in Cmds : closes[c] = 1 /\ reconnFor[c]

\* C20: no command is retried. Its frame is written at most once and its
\* response read at most once; once anything has happened to it (a write, an
\* error offered, a reconnect scheduled, its channel closed) it is never
\* back in the queue or with a dispatch goroutine; it becomes waiting only
\* by its ExecuteCommand, and a worker takes it only from a dispatch
\* goroutine, untouched.
C20_Touched(c) ==
    writes[c] > 0 \/ reads[c] > 0 \/ offered[c] # <<>> \/ reconnFor[c] \/ closes[c] > 0

C20_HandOverStep ==
    \A c \in Cmds :
        /\ (Waiting(c)' /\ ~Waiting(c)) => nsub = c - 1 /\ nsub' = c
        /\ \A w \in Workers :
              (cur'[w] = c /\ cur[w] # c) => holder[c] = w /\ ~C20_Touched(c)
        /\ writes'[c] \in {writes[c], writes[c] + 1}
        /\ writes'[c] # writes[c] => writes[c] = 0 /\ reads[c] = 0 /\ offered[c] = <<>>

C20_NeverRetried ==
    /\ [](\A c \in Cmds :
            /\ writes[c] <= 1 /\ reads[c] <= writes[c]
            /\ C20_Touched(c) => ~Waiting(c)
            /\ Cardinality({i \in 1..Len(commandsQueue) : commandsQueue[i] = c}) <= 1
            /\ ~(InQueue(c) /\ c \in pending) /\ ~(InQueue(c) /\ holder[c] # 0)
            /\ ~(c \in pending /\ holder[c] # 0)
            /\ Waiting(c) => Executors(c) = {})
    /\ [][C20_HandOverStep]_vars

C20_Witness ==
    \E c, d \in Cmds :
        /\ closes[c] = 1 /\ writes[c] = 1 /\ reads[c] = 1
        /\ reconnFor[c] /\ "apns_response" \in Elems(offered[c])
        /\ ret[d] = "nil" /\ ~valid[d] /\ closes[d] = 1 /\ writes[d] = 0
        /\ offered[d] = <<"validation">>

\* The client with a user that keeps receiving from Client.Errors(), next to
\* the client's own errors routine; workers may fail to reconnect and quit.
\* The owners of the commands do not receive here (see HealthyNext).
StreamNext ==
    \/ HealthyNext
    \/ \E w \in Workers : reconnectRoutine(w) /\ rpc'[w] = "quit"
    \/ \E w \in Workers : loopQuit(w)
    \/ clientErrorsReceive

StreamSpec == Init /\ [][StreamNext]_vars

\* C21: every CommandError that leaves the process-wide stream is obtained
\* by the receiver of Client.Errors(), and an error raised by a worker is
\* put on the stream unless the stream is full at that moment.
C21_StreamStep ==
    /\ (commandErrorsQueue # <<>> /\ Len(commandErrorsQueue') < Len(commandErrorsQueue)) =>
          clientErrors' = Append(clientErrors, Head(commandErrorsQueue))
    /\ \A w \in Workers :
          (pc[w] = "errorSignal" /\ pc'[w] # pc[w] /\ Len(commandErrorsQueue) < queueSize) =>
              commandErrorsQueue' = Append(commandErrorsQueue, <<err[w], cur[w]>>)

C21_ConsumerReceivesEvery == [][C21_StreamStep]_vars

\* C22: the ingress handler, which owns the command it submitted, is never
\* blocked on the command's channel while the command still waits for a
\* worker or is being executed by one.
C22_IngressNeverWaitsForWorker ==
    \A c \in Cmds : ~(consumer[c] = "waiting" /\ InFlight(c))

\* C23: for a response of 6 bytes read from the gateway, a command byte
\* other than 8 is reported as an unrecognized response; otherwise the
\* reported identifier is the lowercase hex of bytes 2..5 and the reported
\* status is the table's entry for byte 1.
C23_DecodedAsSent ==
    (commandError # None /\ responseBytes.read = ResponseLength) =>
        LET data == responseBytes.buf
        IN  IF data[1] # 8
            THEN commandError.err = "unrecognized"
            ELSE data[2] \in DOMAIN PushNotificationErrorStatuses =>
                    /\ commandError.err = "apns"
                    /\ commandError.identifier = EncodeToString(SubSeq(data, 3, 6))
                    /\ Len(commandError.identifier) = 8
                    /\ commandError.description = PushNotificationErrorStatuses[data[2]]

\* C24: a response whose status byte is outside the table, and a response
\* of fewer than 6 bytes read, each decode to a CommandError that carries
\* the unrecognized-response error.
C24_UnknownOrShortUnrecognized ==
    (commandError # None /\
        (responseBytes.read < ResponseLength
           \/ responseBytes.buf[2] \notin DOMAIN PushNotificationErrorStatuses)) =>
        commandError.err = "unrecognized"

\* ---------------------------------------------------------------- C25
\* the notification was encoded and nothing was rejected
Encoded == cmdBytes # None /\ cmdBytes.err = NoError

\* a 4-byte big-endian number read back
Uint32(b) == b[1] * 16777216 + b[2] * 65536 + b[3] * 256 + b[4]

\* C25: for every notification that encodes successfully, the frame of
\* PushNotificationCommand.Bytes is the byte 0x02, then a 4-byte big-endian
\* length L, then exactly L bytes, and those L bytes are the output of
\* Notification.Bytes.
C25_FrameIsCommandLengthNotification ==
    Encoded =>
        LET F == cmdBytes.bytes
            L == Uint32(SubSeq(F, 2, 5))
        IN  /\ Len(F) >= 5
            /\ F[1] = 2
            /\ Len(F) = 5 + L
            /\ SubSeq(F, 6, Len(F)) = NotificationBytes(notification).bytes

\* a frame whose length needs two bytes, with every item in it
C25_Witness ==
    /\ Encoded
    /\ ~notification.ExpirationDate.nil
    /\ Len(cmdBytes.bytes) > 2048

\* ---------------------------------------------------------------- C26
\* the sum over the items of 3 + the declared length
RECURSIVE DeclaredSize(_)
DeclaredSize(items) ==
    IF items = <<>> THEN 0
    ELSE 3 + Head(items).length + DeclaredSize(Tail(items))

\* C26: in every encoded frame each item's declared 2-byte length equals
\* the number of content bytes emitted for it, so the sum over the items of
\* (3 + declared length) equals the frame length L; the expiration-date
\* item carries exactly 4 bytes.
C26_DeclaredLengthsAddUp ==
    Encoded =>
        LET items == NotificationItems(notification)
            L == Uint32(SubSeq(cmdBytes.bytes, 2, 5))
        IN  /\ \A i \in 1..Len(items) : items[i].length = Len(items[i].content)
            /\ DeclaredSize(items) = L
            /\ \A i \in 1..Len(items) :
                 items[i].id = ExpirationDateItemID => Len(items[i].content) = 4

\* the same without an expiration date: every declared length is right
C26_WithoutExpirationDate ==
    (Encoded /\ notification.ExpirationDate.nil) => C26_DeclaredLengthsAddUp

\* ---------------------------------------------------------------- C27
\* strings.ToLower on hex digits
ToLower(s) ==
    [i \in DOMAIN s |->
        IF \E k \in 1..6 : UpperHexDigits[k] = s[i]
        THEN HexDigits[10 + (CHOOSE k \in 1..6 : UpperHexDigits[k] = s[i])]
        ELSE s[i]]

\* C27: items are emitted in the order device token (1), payload (2),
\* notification identifier (3), expiration date (4), priority (5); the
\* expiration item is present exactly when ExpirationDate is set, the
\* priority item is always present, and the device-token item's content is
\* the hex-decoding of DeviceToken (it hex-encodes back to DeviceToken).
\* Stated on the writes and on the bytes of the frame: N is the frame
\* after its five header bytes, P the payload's length read from it.
C27_ItemsInOrder ==
    Encoded =>
        LET items == NotificationItems(notification)
            N == SubSeq(cmdBytes.bytes, 6, Len(cmdBytes.bytes))
            P == N[37] * 256 + N[38]
            expires == ~notification.ExpirationDate.nil
        IN  /\ [i \in 1..Len(items) |-> items[i].id]
                 = <<1, 2, 3>> \o (IF expires THEN <<4>> ELSE <<>>) \o <<5>>
            /\ EncodeToString(items[1].content) = ToLower(notification.DeviceToken)
            /\ SubSeq(N, 1, 3) = <<1, 0, 32>>
            /\ EncodeToString(SubSeq(N, 4, 35)) = ToLower(notification.DeviceToken)
            /\ N[36] = 2
            /\ N[39 + P] = 3
            /\ EncodeToString(SubSeq(N, 42 + P, 45 + P))
                 = ToLower(notification.NotificationIdentifier)
            /\ (N[46 + P] = 4) <=> expires
            /\ (Len(N) = 49 + P) <=> ~expires
            /\ SubSeq(N, Len(N) - 3, Len(N)) = <<5, 0, 1, notification.Priority>>

\* a frame with all five items, from a token written in upper case
C27_Witness ==
    /\ Encoded
    /\ ~notification.ExpirationDate.nil
    /\ notification.DeviceToken[2] = "F"
    /\ notification.Payload.customValues = {"w"}

\* ---------------------------------------------------------------- C28
\* the notification reached the payload check: its device token passed
TokenAccepted ==
    /\ DecodeString(notification.DeviceToken).err = NoError
    /\ Len(DecodeString(notification.DeviceToken).bytes) = DeviceTokenItemLength
IdentifierAccepted ==
    /\ DecodeString(notification.NotificationIdentifier).err = NoError
    /\ Len(DecodeString(notification.NotificationIdentifier).bytes)
         = NotificationIdentifierItemLength
\* the size of the payload's JSON encoding, when it has one
PayloadSize == Len(JSON(notification.Payload).json)
PayloadMarshalled == JSON(notification.Payload).err = NoError

\* C28: Notification.Bytes accepts a payload whose JSON encoding is exactly
\* 2048 bytes and rejects every payload of 2049 bytes or more, with an
\* error that reports the actual payload size in bytes.
C28_PayloadBoundaryReported ==
    (cmdBytes # None /\ TokenAccepted /\ PayloadMarshalled) =>
        /\ (PayloadSize = 2048 /\ IdentifierAccepted) => cmdBytes.err = NoError
        /\ PayloadSize >= 2049 =>
             /\ cmdBytes.err # NoError
             /\ PayloadSize \in Elems(cmdBytes.err.numbers)

\* the boundary alone: 2048 bytes pass, 2049 and more are rejected with
\* the payload-size error
C28_PayloadBoundary ==
    (cmdBytes # None /\ TokenAccepted /\ PayloadMarshalled) =>
        /\ (PayloadSize = 2048 /\ IdentifierAccepted) => cmdBytes.err = NoError
        /\ PayloadSize >= 2049 => cmdBytes.err = ErrPayloadSize

\* ---------------------------------------------------------------- C29
\* the error Notification.Bytes would have to give for a token or an
\* identifier that is not hex: the package's own, naming the length N
ShouldBeHexEncoded(e, N) ==
    /\ e.text \in {ErrDeviceToken.text, ErrIdentifier.text}
    /\ e.numbers = <<N>>

\* C29: Notification.Bytes rejects a device token that is not hex or does
\* not decode to exactly 32 bytes, and an identifier that is not hex or
\* does not decode to exactly 4 bytes; a length rejection reports the
\* actual decoded length in bytes (31 for 62 hex characters, 5 for 10), and
\* a non-hex rejection is the package's own "should be hex encoded N bytes
\* long binary string" error.
C29_TokenAndIdentifierRejections ==
    cmdBytes # None =>
        LET token == DecodeString(notification.DeviceToken)
            identifier == DecodeString(notification.NotificationIdentifier)
            reached == TokenAccepted /\ PayloadMarshalled
                       /\ PayloadSize <= PayloadItemMaxLength
        IN  /\ ~TokenAccepted => cmdBytes.err # NoError
            /\ (reached /\ ~IdentifierAccepted) => cmdBytes.err # NoError
            /\ (token.err = NoError /\ ~TokenAccepted)
                 => Len(token.bytes) \in Elems(cmdBytes.err.numbers)
            /\ (reached /\ identifier.err = NoError /\ ~IdentifierAccepted)
                 => Len(identifier.bytes) \in Elems(cmdBytes.err.numbers)
            /\ token.err # NoError
                 => ShouldBeHexEncoded(cmdBytes.err, DeviceTokenItemLength)
            /\ (reached /\ identifier.err # NoError)
                 => ShouldBeHexEncoded(cmdBytes.err, NotificationIdentifierItemLength)

\* the rejections alone: no frame for a bad token or a bad identifier
C29_Rejected ==
    (cmdBytes # None /\ ~(TokenAccepted /\ IdentifierAccepted)) => cmdBytes.err # NoError

\* ---------------------------------------------------------------- C30
\* the payload has an aps block that contains an alert
HasAlert ==
    /\ ~notification.Payload.nil
    /\ ~notification.Payload.Aps.nil
    /\ ~notification.Payload.Aps.Alert.nil

\* C30: encoding a notification is rejected with a validation error unless
\* its payload has an aps block that contains an alert: a notification
\* without payload, without aps, or with an aps that has no alert produces
\* no frame.
C30_AlertRequired ==
    (cmdBytes # None /\ ~HasAlert) => (cmdBytes.err # NoError /\ cmdBytes.bytes = <<>>)

\* what the code does require: a payload without aps produces no frame
C30_ApsRequired ==
    (cmdBytes # None /\ ~notification.Payload.nil /\ notification.Payload.Aps.nil)
        => (cmdBytes.err # NoError /\ cmdBytes.bytes = <<>>)

\* ---------------------------------------------------------------- C31
\* the payload item's content, read from the frame through its length
PayloadItemBytes ==
    LET N == SubSeq(cmdBytes.bytes, 6, Len(cmdBytes.bytes))
        P == N[37] * 256 + N[38]
    IN  SubSeq(N, 39, 38 + P)

\* how many objects are open before position i of a JSON text (the
\* strings of the payloads here hold no braces)
Depth(b, i) ==
    Cardinality({j \in 1..(i - 1) : b[j] = Ascii("{")})
    - Cardinality({j \in 1..(i - 1) : b[j] = Ascii("}")})

\* the positions where the key k (one character) starts in b
KeyAt(b, k) ==
    {i \in 1..(Len(b) - 3) :
        /\ b[i] = Ascii("\"") /\ b[i + 1] = Ascii(k)
        /\ b[i + 2] = Ascii("\"") /\ b[i + 3] = Ascii(":")}

\* the positions where the key "aps" starts in b
ApsKeyAt(b) ==
    {i \in 1..(Len(b) - 5) :
        SubSeq(b, i, i + 5) = StringBytes(<<"\"", "a", "p", "s", "\"", ":">>)}

\* C31: in the encoded payload every custom field is a top-level key next
\* to aps, never under aps, and a custom field named "aps" never replaces
\* the aps block: encoding such a payload fails, and the one "aps" key of
\* an encoded payload is followed by the aps object.
C31_CustomFieldsTopLevel ==
    (cmdBytes # None /\ ~notification.Payload.nil) =>
        /\ "aps" \in notification.Payload.customValues
             => (cmdBytes.err # NoError /\ cmdBytes.bytes = <<>>)
        /\ Encoded =>
             LET b == PayloadItemBytes
             IN  /\ "w" \in notification.Payload.customValues
                      => /\ Cardinality(KeyAt(b, "w")) = 1
                         /\ \A i \in KeyAt(b, "w") : Depth(b, i) = 1
                 /\ Cardinality(ApsKeyAt(b)) = 1
                 /\ \A i \in ApsKeyAt(b) : Depth(b, i) = 1 /\ b[i + 6] = Ascii("{")

\* a frame whose payload has a custom field
C31_Witness ==
    /\ Encoded
    /\ notification.Payload.customValues = {"w"}
    /\ notification.ExpirationDate.nil
    /\ ~notification.Payload.Aps.Alert.nil

\* ---------------------------------------------------------------- C32
\* CheckFeedbackService returned
Returned == feedback # None /\ feedback.pc = "returned"
\* every read brought one whole record, and then the peer closed
WellFormedStream ==
    /\ \A i \in 1..Len(feedback.sent) : Len(feedback.sent[i]) = 38
    /\ feedback.end = "EOF"

\* C32: for a feedback stream of k well-formed 38-byte records followed by
\* EOF, each record arriving in one read, CheckFeedbackService returns
\* without error a list of exactly k entries in stream order, entry i with
\* the timestamp of bytes 0..3 (big-endian seconds) and the lowercase hex
\* of bytes 6..37 as device token; the two records [1][32][32 x 00] and
\* [2][32][32 x ff] give the tokens "00" x 32 and "ff" x 32.
C32_FeedbackEntriesAsSent ==
    (Returned /\ WellFormedStream) =>
        /\ feedback.err = "nil"
        /\ Len(feedback.Devices) = Len(feedback.sent)
        /\ \A i \in 1..Len(feedback.sent) :
             LET r == feedback.sent[i]
             IN  /\ feedback.Devices[i].Timestamp
                      = ((r[1] * 256 + r[2]) * 256 + r[3]) * 256 + r[4]
                 /\ Len(feedback.Devices[i].DeviceToken) = 64
                 /\ \A j \in 1..32 :
                      /\ feedback.Devices[i].DeviceToken[2 * j - 1]
                           = HexDigits[(r[6 + j] \div 16) + 1]
                      /\ feedback.Devices[i].DeviceToken[2 * j]
                           = HexDigits[(r[6 + j] % 16) + 1]
        /\ feedback.sent = <<FeedbackRecord(<<0, 0, 0, 1>>, Repeat(<<0>>, 32)),
                             FeedbackRecord(<<0, 0, 0, 2>>, Repeat(<<255>>, 32))>>
             => feedback.Devices
                  = <<[Timestamp |-> 1, DeviceToken |-> Repeat(<<"0", "0">>, 32)],
                      [Timestamp |-> 2, DeviceToken |-> Repeat(<<"f", "f">>, 32)]>>

\* three records were read and the call returned
C32_Witness ==
    /\ Returned /\ WellFormedStream
    /\ Len(feedback.sent) = 3
    /\ feedback.sent[1] # feedback.sent[2]

\* ---------------------------------------------------------------- C33
\* the reads done so far
ReadsDone == Len(feedback.sent) - Len(feedback.stream)
\* the first read that brought more than 0 and fewer than 38 bytes
ShortReads == {i \in 1..Len(feedback.sent) : Len(feedback.sent[i]) < 38}
FirstShortRead == CHOOSE i \in ShortReads : \A j \in ShortReads : i <= j

\* C33: when a feedback read returns a short record (more than 0 and
\* fewer than 38 bytes), CheckFeedbackService reports an unrecognized-entry
\* error, appends no entry for that record, aborts the scan and returns
\* the entries accumulated so far together with the error.
C33_ShortRecordAborts ==
    (feedback # None /\ ShortReads # {} /\ ReadsDone >= FirstShortRead) =>
        /\ feedback.pc = "returned"
        /\ feedback.err = "unrecognized"
        /\ Len(feedback.Devices) = FirstShortRead - 1
        /\ ReadsDone = FirstShortRead

\* ---------------------------------------------------------------- C34
\* C34: CheckFeedbackService always returns: its read loop ends after
\* finitely many reads, on EOF, on a read timeout, or on a read or decode
\* error. As a step: a turn of the loop whose Read failed (neither EOF nor
\* timeout) is the last one, and so is a turn that ended the stream.
C34_ReadErrorEndsLoop ==
    [][(feedback # None /\ (feedback'.err = "error" \/ feedback.stream = <<>>))
          => feedback'.pc = "returned"]_vars

\* the same as an eventuality, for a running call
C34_FeedbackReturns == (feedback # None) ~> Returned

\* when the stream ends with EOF or a timeout the call does return
C34_ReturnsOnEOFOrTimeout ==
    (feedback # None /\ feedback.end # "error") ~> Returned

\* ---------------------------------------------------------------- C35
\* a reconnect of w is in progress: scheduled by w.reconnect(), and its
\* goroutine has not finished redialing (or is handing over its failure)
Reconnecting(w) == rpc[w] \in {"running", "quit"}
\* where the run loop registers, waits for a command or executes one
OnConnection(w) ==
    pc[w] \in {"register", "await", "bytes", "write", "read", "responseSignal", "responseSend"}

\* C35: a worker never writes to or reads from its connection while a
\* reconnect of that worker is in progress: from the moment a reconnect is
\* scheduled until the reconnect goroutine has finished redialing, the run
\* loop performs no socket I/O and accepts no command; and within one
\* execution the read starts only after the write has returned.
C35_Step ==
    \A w \in Workers :
        /\ Reconnecting(w) =>
             /\ \A c \in Cmds : writes'[c] # writes[c] => cur[w] # c
             /\ \A c \in Cmds : reads'[c] # reads[c] => cur[w] # c
             /\ cur'[w] # NoCmd => cur'[w] = cur[w]
        /\ Reconnecting(w)' => ~OnConnection(w)'
        /\ pc'[w] = "read" => (cur'[w] # NoCmd /\ writes'[cur'[w]] = reads'[cur'[w]] + 1)
        /\ \A c \in Cmds : (reads'[c] # reads[c] /\ cur[w] = c) => writes[c] = reads[c] + 1
C35_NoIOWhileReconnecting == [][C35_Step]_vars

\* one worker waits in its select for its reconnect while another writes
C35_Witness ==
    \E w, v \in Workers :
        /\ rpc[w] = "running" /\ pc[w] = "select"
        /\ pc[v] = "write"

\* ---------------------------------------------------------------- C36
\* C36: an APNS error response is reported against the command whose
\* identifier equals the identifier carried in the response: the
\* CommandError's back-reference and the private channel that receives it
\* belong to that command, also when it was written on the same connection
\* earlier than the command the worker is executing.
C36_ReportedAgainstIdentified ==
    wire # None =>
        \A i \in 1..Len(wire.reports) :
            LET r == wire.reports[i]
            IN  /\ r.error.identifier = Identifier(r.command)
                /\ r.error.identifier = Identifier(r.channel)

\* what does hold: a response about the command being executed is
\* reported against it
C36_CurrentCommandReported ==
    [][\A c \in WireCmds, st \in ResponseStatuses :
          (wireReadResponse(c, st) /\ wire.cmd = c) =>
              LET r == wire'.reports[Len(wire'.reports)]
              IN  r.error.identifier = Identifier(r.command) /\ r.channel = c]_vars

\* ---------------------------------------------------------------- C37
\* C37: a worker exits its run loop only between commands: the quit signal
\* is never acted on while a command the worker has received is still
\* unfinalized, so every command handed to a worker has its error channel
\* closed before that worker terminates, and the worker closes its TLS
\* connection on exit.
C37_Step ==
    \A w \in Workers :
        /\ (pc[w] # "exited" /\ pc'[w] = "exited") =>
             /\ pc[w] = "select"
             /\ cur[w] = NoCmd
             /\ conn'[w] = "closed"
        /\ \A c \in Cmds : (cur[w] = c /\ cur'[w] # c) => closes'[c] >= 1
        /\ pc'[w] = "exited" => (cur'[w] = NoCmd /\ conn'[w] = "closed")
C37_ExitsBetweenCommands == [][C37_Step]_vars

\* a worker has terminated after the command that made it reconnect was
\* closed
C37_Witness ==
    \E w \in Workers, c \in Cmds :
        /\ pc[w] = "exited" /\ conn[w] = "closed"
        /\ reconnFor[c] /\ closes[c] = 1 /\ writes[c] = 1

\* ---------------------------------------------------------------- C38
\* C38: worker signalling is deadlock-free: in every interleaving the sends
\* on a worker's ready and pause signals find a free buffer slot (each
\* holds at most one pending signal), every send on the worker's error
\* signal is taken by its error-drain goroutine even when the process-wide
\* stream is full, and the quit send of a failed reconnect is received by
\* the run loop (the loop is on its way to the select, or there with the
\* quit case enabled).
C38_SignallingNeverBlocks ==
    \A w \in Workers :
        /\ pc[w] \in {"write", "read", "responseSend"} => pauseSignal[w] = 0
        /\ pc[w] = "write" => ENABLED executeWrite(w)
        /\ pc[w] = "read" => ENABLED executeRead(w)
        /\ pc[w] = "responseSend" => ENABLED executeResponseSend(w)
        /\ pc[w] = "pauseOrReady" =>
             /\ pauseSignal[w] = 0 => readySignal[w] = 0
             /\ ENABLED loopPauseOrReady(w)
        /\ rpc[w] = "running" => (readySignal[w] = 0 /\ ENABLED reconnectRoutine(w))
        /\ pc[w] = "errorSignal" => ENABLED loopErrorSignal(w)
        /\ pc[w] = "responseSignal" => ENABLED executeResponseSignal(w)
        /\ pc[w] = "errorSend" => ENABLED loopErrorSend(w)
        /\ rpc[w] = "quit" =>
             /\ pc[w] \in {"errorSignal", "errorSend", "pauseOrReady", "close", "select"}
             /\ pc[w] = "select" => ENABLED loopQuit(w)

\* a worker hands over an error while the process-wide stream is full
C38_Witness ==
    \E w \in Workers :
        /\ pc[w] = "errorSignal"
        /\ Len(commandErrorsQueue) = queueSize

\* ---------------------------------------------------------------- C39
\* C39: every inbox taken from the ready registry belongs to a
\* non-terminated worker that is blocked receiving on that inbox, so the
\* dispatcher's forward always completes and no command is ever handed to
\* a terminated or reconnecting worker or left stranded in an inbox.
C39_HandOverStep ==
    \A w \in Workers :
        (cur'[w] # cur[w] /\ cur'[w] # NoCmd) =>
            /\ pc[w] = "await" /\ pc'[w] = "bytes"
            /\ rpc[w] = "none" /\ rpc'[w] = "none"
            /\ holder[cur'[w]] = w
C39_InboxOwnerReceives ==
    /\ [](/\ \A w \in Workers :
               (Registered(w) \/ Holders(w) # {}) =>
                   /\ pc[w] = "await"
                   /\ rpc[w] = "none"
                   /\ cur[w] = NoCmd
          /\ \A c \in Cmds : holder[c] # 0 => ENABLED dispatchForward(c))
    /\ [][C39_HandOverStep]_vars

\* a dispatch goroutine holds the inbox of a waiting worker while another
\* worker has terminated
C39_Witness ==
    \E c \in Cmds, w, v \in Workers :
        /\ holder[c] = w /\ pc[w] = "await"
        /\ pc[v] = "exited"
====
